---- MODULE Spec2Model ----
(***************************************************************************)
(* LinearHeatConduction (src/heat/LinearHeatConduction.cc), DIM == 2:      *)
(* load and boundary set-up, assembly of the conductivity matrix with      *)
(* SIMP interpolation and Dirichlet elimination, the lazily configured     *)
(* multigrid solver, objective / constraint / sensitivities, and the       *)
(* two-file restart scheme.                                                *)
(*                                                                         *)
(* PetscScalar values are modelled exactly: a scalar is a pair <<n, d>>,   *)
(* the fraction n/d in lowest terms with d > 0.  A zero denominator stands *)
(* for what IEEE arithmetic gives on a division by zero: <<1,0>> is +inf,  *)
(* <<-1,0>> is -inf and <<0,0>> is NaN.                                    *)
(***************************************************************************)
EXTENDS Integers, Sequences, FiniteSets, TLC

\* ------------------------------------------------------------------------
\* PetscScalar arithmetic (exact)
\* ------------------------------------------------------------------------

Abs(a) == IF a < 0 THEN -a ELSE a

Sign(a) == IF a < 0 THEN -1 ELSE IF a = 0 THEN 0 ELSE 1

RECURSIVE GCD(_, _)
GCD(a, b) == IF b = 0 THEN a ELSE GCD(b, a % b)

\* n/d divided through by the common divisor g > 0.
Reduce(n, d, g) == << n \div g, d \div g >>

\* The scalar n/d in lowest terms.
Norm(n, d) ==
  IF d = 0 THEN << Sign(n), 0 >>
  ELSE Reduce(Sign(d) * n, Abs(d), GCD(Abs(n), Abs(d)))

R(n, d) == Norm(n, d)

Zero == << 0, 1 >>

One == << 1, 1 >>

\* x + y over the least common denominator; g divides both denominators.
RAddOver(x, y, g) ==
  Norm(x[1] * (y[2] \div g) + y[1] * (x[2] \div g), (x[2] \div g) * y[2])

RAdd(x, y) ==
  IF x[2] = 0 /\ y[2] = 0
  THEN (IF x[1] = y[1] THEN x ELSE << 0, 0 >>)
  ELSE IF x[2] = 0 \/ y[2] = 0
  THEN Norm(x[1] * y[2] + y[1] * x[2], x[2] * y[2])
  ELSE RAddOver(x, y, GCD(x[2], y[2]))

RNeg(x) == << -x[1], x[2] >>

RSub(x, y) == RAdd(x, RNeg(y))

\* x * y with the common divisors g1 of x[1] and y[2], g2 of y[1] and x[2]
\* taken out before multiplying.
RMulOver(x, y, g1, g2) ==
  Norm((x[1] \div g1) * (y[1] \div g2), (x[2] \div g2) * (y[2] \div g1))

RMul(x, y) ==
  IF x[2] = 0 \/ y[2] = 0 \/ x[1] = 0 \/ y[1] = 0
  THEN Norm(x[1] * y[1], x[2] * y[2])
  ELSE RMulOver(x, y, GCD(Abs(x[1]), y[2]), GCD(Abs(y[1]), x[2]))

RDiv(x, y) ==
  IF x[2] = 0
  THEN (IF y[2] = 0 \/ x[1] = 0 THEN << 0, 0 >>
        ELSE << x[1] * (IF y[1] < 0 THEN -1 ELSE 1), 0 >>)
  ELSE IF y[2] = 0
  THEN (IF y[1] = 0 THEN << 0, 0 >> ELSE Zero)
  ELSE Norm(x[1] * y[2], x[2] * y[1])

\* PetscPowScalar(x, p) for an integer exponent p >= 0.
RECURSIVE PetscPowScalar(_, _)
PetscPowScalar(x, p) == IF p <= 0 THEN One ELSE RMul(x, PetscPowScalar(x, p - 1))

IsFinite(x) == x[2] # 0

RLess(x, y) == x[1] * y[2] < y[1] * x[2]

RLeq(x, y) == x[1] * y[2] <= y[1] * x[2]

RAbs(x) == << Abs(x[1]), x[2] >>

RMin(x, y) == IF RLess(x, y) THEN x ELSE y

\* A function with every value computed.
Eager(f) == f @@ f

RECURSIVE SumSeq(_)
SumSeq(s) == IF s = << >> THEN Zero ELSE RAdd(Head(s), SumSeq(Tail(s)))

\* ------------------------------------------------------------------------
\* Numbers a + b*g with g = 1/sqrt(3), the coordinate of the Gauss points;
\* g*g = 1/3.  A number is the pair << a, b >> of scalars.
\* ------------------------------------------------------------------------

G(a, b) == << a, b >>

GConst(a) == << a, Zero >>

GAdd(p, q) == << RAdd(p[1], q[1]), RAdd(p[2], q[2]) >>

GNeg(p) == << RNeg(p[1]), RNeg(p[2]) >>

GSub(p, q) == GAdd(p, GNeg(q))

GMul(p, q) ==
  << RAdd(RMul(p[1], q[1]), RMul(R(1, 3), RMul(p[2], q[2]))),
     RAdd(RMul(p[1], q[2]), RMul(p[2], q[1])) >>

\* num / nrm for a scalar nrm.
GScale(num, nrm) == << RDiv(num[1], nrm), RDiv(num[2], nrm) >>

\* p / q = p * conj(q) / (q * conj(q)).
GDiv(p, q) ==
  GScale(GMul(p, << q[1], RNeg(q[2]) >>),
         RSub(RMul(q[1], q[1]), RMul(R(1, 3), RMul(q[2], q[2]))))

\* ------------------------------------------------------------------------
\* Element kernel (Quad4)
\* ------------------------------------------------------------------------

\* Element edge lengths (dx, dy).
ElemSizes == { << 1, 1 >> }

\* Dot: the dot product of two vectors of length l.
RECURSIVE Dot(_, _, _)
Dot(v1, v2, l) ==
  IF l = 0 THEN GConst(Zero) ELSE GAdd(Dot(v1, v2, l - 1), GMul(v1[l], v2[l]))

\* The derivatives of the four bilinear shape functions at (xi, eta).
DifferentiatedShapeFunctions_2D(xi, eta) ==
  [dNdxi  |-> << GMul(GConst(R(-1, 4)), GSub(GConst(One), eta)),
                 GMul(GConst(R(1, 4)), GSub(GConst(One), eta)),
                 GMul(GConst(R(1, 4)), GAdd(GConst(One), eta)),
                 GMul(GConst(R(-1, 4)), GAdd(GConst(One), eta)) >>,
   dNdeta |-> << GMul(GConst(R(-1, 4)), GSub(GConst(One), xi)),
                 GMul(GConst(R(-1, 4)), GAdd(GConst(One), xi)),
                 GMul(GConst(R(1, 4)), GAdd(GConst(One), xi)),
                 GMul(GConst(R(1, 4)), GSub(GConst(One), xi)) >>]

\* The inverse of the 2x2 matrix J whose determinant is detJ.
InverseWithDet(J, detJ) ==
  [detJ |-> detJ,
   invJ |-> << << GDiv(J[2][2], detJ), GDiv(GNeg(J[1][2]), detJ) >>,
               << GDiv(GNeg(J[2][1]), detJ), GDiv(J[1][1], detJ) >> >>]

\* Inverse2M: the determinant and the inverse of a 2x2 matrix.
Inverse2M(J) ==
  InverseWithDet(J, GSub(GMul(J[1][1], J[2][2]), GMul(J[1][2], J[2][1])))

\* The Gauss points and weights: two per axis, or one (0, weight 2) when
\* the integration is reduced.
GaussPoints(redInt) ==
  IF redInt = 1 THEN << GConst(Zero) >>
  ELSE << G(Zero, R(-1, 1)), G(Zero, One) >>

GaussWeights(redInt) ==
  IF redInt = 1 THEN << GConst(R(2, 1)) >> ELSE << GConst(One), GConst(One) >>

\* The Jacobian of the map from the reference square to the element.
Jacobian(dN, X, Y) ==
  << << Dot(dN.dNdxi, X, 4),  Dot(dN.dNdxi, Y, 4) >>,
     << Dot(dN.dNdeta, X, 4), Dot(dN.dNdeta, Y, 4) >> >>

\* B = invJ * dN: the derivatives of the shape functions in x and y.
BMatrix(invJ, dN) ==
  Eager([i \in 1 .. 2 |-> Eager([j \in 1 .. 4 |->
     GAdd(GMul(invJ[i][1], dN.dNdxi[j]), GMul(invJ[i][2], dN.dNdeta[j]))])])

\* weight * B^T kcond B with kcond = {{1, 1}, {0, 1}}.
WeightedBtBSkewConductivity(weight, B) ==
  Eager([i \in 1 .. 4 |-> Eager([j \in 1 .. 4 |->
     GMul(weight, GAdd(GAdd(GMul(B[1][i], B[1][j]), GMul(B[1][i], B[2][j])),
                       GMul(B[2][i], B[2][j])))])])

\* weight * B^T kcond B with kcond the identity.
WeightedBtB(weight, B) ==
  Eager([i \in 1 .. 4 |-> Eager([j \in 1 .. 4 |->
     GMul(weight, GAdd(GMul(B[1][i], B[1][j]), GMul(B[2][i], B[2][j])))])])

\* The term of a Gauss point with the product w of its two weights, the
\* shape derivatives dN there and the inverted Jacobian inv.
GaussTermOf(w, dN, inv) == WeightedBtB(GMul(w, inv.detJ), BMatrix(inv.invJ, dN))

GaussTermAt(X, Y, w, dN) == GaussTermOf(w, dN, Inverse2M(Jacobian(dN, X, Y)))

\* The contribution of the Gauss point (ii, jj) to ke.
Quad4GaussTerm(X, Y, redInt, ii, jj) ==
  GaussTermAt(X, Y, GMul(GaussWeights(redInt)[ii], GaussWeights(redInt)[jj]),
              DifferentiatedShapeFunctions_2D(GaussPoints(redInt)[ii],
                                              GaussPoints(redInt)[jj]))

\* The sum of the n-by-n Gauss-point terms T.
SumGaussTerms(n, T) ==
  Eager([i \in 1 .. 4 |-> Eager([j \in 1 .. 4 |->
     IF n = 1 THEN T[1][1][i][j]
     ELSE GAdd(GAdd(GAdd(T[1][1][i][j], T[1][2][i][j]), T[2][1][i][j]),
               T[2][2][i][j])])])

\* Quad4Isoparametric: the element conductivity matrix for unit conductivity.
Quad4Isoparametric(X, Y, redInt) ==
  SumGaussTerms(2 - redInt,
    Eager([ii \in 1 .. (2 - redInt) |-> Eager([jj \in 1 .. (2 - redInt) |->
       Quad4GaussTerm(X, Y, redInt, ii, jj)])]))

\* A number a + b*g as a PetscScalar: on the axis-aligned rectangles of the
\* structured grid the g-part of every entry of ke cancels.
ScalarOf(p) == IF p[2] = Zero THEN p[1] ELSE << 0, 0 >>

ScalarMatrix(ke) ==
  Eager([i \in 1 .. 4 |-> Eager([j \in 1 .. 4 |-> ScalarOf(ke[i][j])])])

\* KE of a dx-by-dy element: X = {0, dx, dx, 0}, Y = {0, 0, dy, dy}, full
\* integration.
ElementMatrix(dx, dy) ==
  ScalarMatrix(Quad4Isoparametric(
    << GConst(Zero), GConst(R(dx, 1)), GConst(R(dx, 1)), GConst(Zero) >>,
    << GConst(Zero), GConst(Zero), GConst(R(dy, 1)), GConst(R(dy, 1)) >>, 0))

\* KE for every element size of the model, computed once.
KEof == Eager([sz \in ElemSizes |-> ElementMatrix(sz[1], sz[2])])

\* ------------------------------------------------------------------------
\* Element kernel (Hex8)
\* ------------------------------------------------------------------------

\* s/8 * a * b: one derivative of a trilinear shape function.
ShapeDerivative(s, a, b) == GMul(GMul(GConst(R(s, 8)), a), b)

\* 1 - t and 1 + t.
OneMinus(t) == GSub(GConst(One), t)

OnePlus(t) == GAdd(GConst(One), t)

\* The derivatives of the eight trilinear shape functions at (xi, eta, zeta).
DifferentiatedShapeFunctions(xi, eta, zeta) ==
  [dNdxi   |-> << ShapeDerivative(-1, OneMinus(eta), OneMinus(zeta)),
                  ShapeDerivative(1, OneMinus(eta), OneMinus(zeta)),
                  ShapeDerivative(1, OnePlus(eta), OneMinus(zeta)),
                  ShapeDerivative(-1, OnePlus(eta), OneMinus(zeta)),
                  ShapeDerivative(-1, OneMinus(eta), OnePlus(zeta)),
                  ShapeDerivative(1, OneMinus(eta), OnePlus(zeta)),
                  ShapeDerivative(1, OnePlus(eta), OnePlus(zeta)),
                  ShapeDerivative(-1, OnePlus(eta), OnePlus(zeta)) >>,
   dNdeta  |-> << ShapeDerivative(-1, OneMinus(xi), OneMinus(zeta)),
                  ShapeDerivative(-1, OnePlus(xi), OneMinus(zeta)),
                  ShapeDerivative(1, OnePlus(xi), OneMinus(zeta)),
                  ShapeDerivative(1, OneMinus(xi), OneMinus(zeta)),
                  ShapeDerivative(-1, OneMinus(xi), OnePlus(zeta)),
                  ShapeDerivative(-1, OnePlus(xi), OnePlus(zeta)),
                  ShapeDerivative(1, OnePlus(xi), OnePlus(zeta)),
                  ShapeDerivative(1, OneMinus(xi), OnePlus(zeta)) >>,
   dNdzeta |-> << ShapeDerivative(-1, OneMinus(xi), OneMinus(eta)),
                  ShapeDerivative(-1, OnePlus(xi), OneMinus(eta)),
                  ShapeDerivative(-1, OnePlus(xi), OnePlus(eta)),
                  ShapeDerivative(-1, OneMinus(xi), OnePlus(eta)),
                  ShapeDerivative(1, OneMinus(xi), OneMinus(eta)),
                  ShapeDerivative(1, OnePlus(xi), OneMinus(eta)),
                  ShapeDerivative(1, OnePlus(xi), OnePlus(eta)),
                  ShapeDerivative(1, OneMinus(xi), OnePlus(eta)) >>]

\* a*b - c*d.
Minor(a, b, c, d) == GSub(GMul(a, b), GMul(c, d))

\* The determinant of a 3x3 matrix, expanded along its first row.
Determinant3(J) ==
  GAdd(GSub(GMul(J[1][1], Minor(J[2][2], J[3][3], J[3][2], J[2][3])),
            GMul(J[1][2], Minor(J[2][1], J[3][3], J[3][1], J[2][3]))),
       GMul(J[1][3], Minor(J[2][1], J[3][2], J[3][1], J[2][2])))

\* The inverse of the 3x3 matrix J whose determinant is detJ, with the
\* second entry of the first row not negated.
Inverse3WithDetSignSlip(J, detJ) ==
  [detJ |-> detJ,
   invJ |->
     << << GDiv(Minor(J[2][2], J[3][3], J[3][2], J[2][3]), detJ),
           GDiv(Minor(J[1][2], J[3][3], J[1][3], J[3][2]), detJ),
           GDiv(Minor(J[1][2], J[2][3], J[1][3], J[2][2]), detJ) >>,
        << GDiv(GNeg(Minor(J[2][1], J[3][3], J[2][3], J[3][1])), detJ),
           GDiv(Minor(J[1][1], J[3][3], J[1][3], J[3][1]), detJ),
           GDiv(GNeg(Minor(J[1][1], J[2][3], J[1][3], J[2][1])), detJ) >>,
        << GDiv(Minor(J[2][1], J[3][2], J[2][2], J[3][1]), detJ),
           GDiv(GNeg(Minor(J[1][1], J[3][2], J[1][2], J[3][1])), detJ),
           GDiv(Minor(J[1][1], J[2][2], J[2][1], J[1][2]), detJ) >> >>]

\* The inverse of the 3x3 matrix J whose determinant is detJ.
Inverse3WithDet(J, detJ) ==
  [detJ |-> detJ,
   invJ |->
     << << GDiv(Minor(J[2][2], J[3][3], J[3][2], J[2][3]), detJ),
           GDiv(GNeg(Minor(J[1][2], J[3][3], J[1][3], J[3][2])), detJ),
           GDiv(Minor(J[1][2], J[2][3], J[1][3], J[2][2]), detJ) >>,
        << GDiv(GNeg(Minor(J[2][1], J[3][3], J[2][3], J[3][1])), detJ),
           GDiv(Minor(J[1][1], J[3][3], J[1][3], J[3][1]), detJ),
           GDiv(GNeg(Minor(J[1][1], J[2][3], J[1][3], J[2][1])), detJ) >>,
        << GDiv(Minor(J[2][1], J[3][2], J[2][2], J[3][1]), detJ),
           GDiv(GNeg(Minor(J[1][1], J[3][2], J[1][2], J[3][1])), detJ),
           GDiv(Minor(J[1][1], J[2][2], J[2][1], J[1][2]), detJ) >> >>]

\* Inverse3M: the determinant and the inverse of a 3x3 matrix.
Inverse3M(J) == Inverse3WithDet(J, Determinant3(J))

\* The Jacobian of the map from the reference cube to the element.
Jacobian3(dN, X, Y, Z) ==
  << << Dot(dN.dNdxi, X, 8),   Dot(dN.dNdxi, Y, 8),   Dot(dN.dNdxi, Z, 8) >>,
     << Dot(dN.dNdeta, X, 8),  Dot(dN.dNdeta, Y, 8),  Dot(dN.dNdeta, Z, 8) >>,
     << Dot(dN.dNdzeta, X, 8), Dot(dN.dNdzeta, Y, 8), Dot(dN.dNdzeta, Z, 8) >> >>

\* B = invJ * dN: the derivatives of the shape functions in x, y and z.
BMatrix3(invJ, dN) ==
  Eager([i \in 1 .. 3 |-> Eager([j \in 1 .. 8 |->
     GAdd(GAdd(GMul(invJ[i][1], dN.dNdxi[j]), GMul(invJ[i][2], dN.dNdeta[j])),
          GMul(invJ[i][3], dN.dNdzeta[j]))])])

\* weight * B^T kcond B with kcond the identity.
WeightedBtB3(weight, B) ==
  Eager([i \in 1 .. 8 |-> Eager([j \in 1 .. 8 |->
     GMul(weight, GAdd(GAdd(GMul(B[1][i], B[1][j]), GMul(B[2][i], B[2][j])),
                       GMul(B[3][i], B[3][j])))])])

\* The term of a Gauss point with the product w of its three weights.
GaussTermOf3(w, dN, inv) ==
  WeightedBtB3(GMul(w, inv.detJ), BMatrix3(inv.invJ, dN))

GaussTermAt3(X, Y, Z, w, dN) ==
  GaussTermOf3(w, dN, Inverse3M(Jacobian3(dN, X, Y, Z)))

\* The contribution of the Gauss point (ii, jj, kk) to ke.
Hex8GaussTerm(X, Y, Z, redInt, ii, jj, kk) ==
  GaussTermAt3(X, Y, Z,
    GMul(GMul(GaussWeights(redInt)[ii], GaussWeights(redInt)[jj]),
         GaussWeights(redInt)[kk]),
    DifferentiatedShapeFunctions(GaussPoints(redInt)[ii], GaussPoints(redInt)[jj],
                                 GaussPoints(redInt)[kk]))

\* The sum of the entries (i, j) of the first t matrices of T.
RECURSIVE SumEntry(_, _, _, _)
SumEntry(T, t, i, j) ==
  IF t = 0 THEN GConst(Zero) ELSE GAdd(SumEntry(T, t - 1, i, j), T[t][i][j])

\* The Gauss points (ii, jj, kk) in the order of the three loops.
GaussTriples(n) ==
  [t \in 1 .. (n * n * n) |->
     << ((t - 1) \div (n * n)) + 1, (((t - 1) \div n) % n) + 1, ((t - 1) % n) + 1 >>]

Hex8Terms(X, Y, Z, redInt, P) ==
  Eager([t \in DOMAIN P |-> Hex8GaussTerm(X, Y, Z, redInt, P[t][1], P[t][2], P[t][3])])

Hex8Sum(T) ==
  Eager([i \in 1 .. 8 |-> Eager([j \in 1 .. 8 |-> SumEntry(T, Len(T), i, j)])])

\* Hex8Isoparametric: the element conductivity matrix for unit conductivity.
Hex8Isoparametric(X, Y, Z, redInt) ==
  Hex8Sum(Hex8Terms(X, Y, Z, redInt, GaussTriples(2 - redInt)))

\* ------------------------------------------------------------------------
\* Bounds and input sets
\* ------------------------------------------------------------------------

\* Node grids (M, N) of the structured mesh: 1x1 and 2x1 elements.
NodeGrids == { <<2, 2>>, <<3, 2>> }

\* Calls of the evaluator or the solver on one instance.
MaxCalls == 2

\* Saves attempted by one process.
MaxSaves == 3

\* Processes launched one after the other on the same working directory.
MaxLaunches == 2

\* ------------------------------------------------------------------------
\* PETSc constants
\* ------------------------------------------------------------------------

PETSC_TRUE == "PETSC_TRUE"

PETSC_FALSE == "PETSC_FALSE"

\* A member that no constructor initialises.
Indeterminate == "indeterminate"

LoadIntensity == R(1, 1000)

\* The default of -nlvls.
DefaultNlvls == 4

\* maxitsGlobal of the fine-grid Krylov method.
maxitsGlobal == 200

\* nen of a Q1 element.
nedof == 4

\* ------------------------------------------------------------------------
\* Structured grid
\* ------------------------------------------------------------------------

NumNodes(g) == g[1] * g[2]

NumElems(g) == (g[1] - 1) * (g[2] - 1)

Nodes(g) == 0 .. (NumNodes(g) - 1)

Elems(g) == 0 .. (NumElems(g) - 1)

\* The element list of a process that owns the columns xs0 .. xs0+xm-1 and
\* the rows ys0 .. ys0+ym-1 only: no element reaching into the ghost nodes.
ElementListOwnedOnly(xs0, xm, ys0, ym, Xs0, Xm, Ys0, Ym) ==
  [ne |-> (xm - 1) * (ym - 1),
   e  |-> Eager([c \in 0 .. ((xm - 1) * (ym - 1) - 1) |->
            << (xs0 + (c % (xm - 1)) - Xs0) + (ys0 + (c \div (xm - 1)) - Ys0) * Xm,
               (xs0 + (c % (xm - 1)) - Xs0 + 1) + (ys0 + (c \div (xm - 1)) - Ys0) * Xm,
               (xs0 + (c % (xm - 1)) - Xs0 + 1) + (ys0 + (c \div (xm - 1)) - Ys0 + 1) * Xm,
               (xs0 + (c % (xm - 1)) - Xs0) + (ys0 + (c \div (xm - 1)) - Ys0 + 1) * Xm >>])]

\* DMDAGetElements_2D on a process that owns the node columns xs0..xs0+xm-1
\* and rows ys0..ys0+ym-1 with ghost region Xs0.., Ys0..: the list of cells,
\* each four local node indices counterclockwise from the lower left.
ElementList(xs0, xm, ys0, ym, Xs0, Xm, Ys0, Ym) ==
  LET xe == xs0 + xm
      Xe == Xs0 + Xm
      xs == IF xs0 # Xs0 THEN xs0 - 1 ELSE xs0
      ye == ys0 + ym
      ys == IF ys0 # Ys0 THEN ys0 - 1 ELSE ys0
      w  == xe - xs - 1
      ne == w * (ye - ys - 1)
      cell(i, j) == << (i - Xs0) + (j - Ys0) * (Xe - Xs0),
                       (i - Xs0 + 1) + (j - Ys0) * (Xe - Xs0),
                       (i - Xs0 + 1) + (j - Ys0 + 1) * (Xe - Xs0),
                       (i - Xs0) + (j - Ys0 + 1) * (Xe - Xs0) >>
  IN  [ne |-> ne,
       e  |-> Eager([c \in 0 .. (ne - 1) |-> cell(xs + (c % w), ys + (c \div w))])]

\* DMDAGetElements_2D: the element list of a DM, built on the first call and
\* cached in the DM (da->e, da->ne) afterwards.  One process owns the grid.
DMDAGetElements_2D(dm) ==
  IF dm.e = << >>
  THEN LET el == ElementList(0, dm.M, 0, dm.N, 0, dm.M, 0, dm.N)
       IN  [dm EXCEPT !.ne = el.ne, !.e = << el.e >>]
  ELSE dm

\* The DM of one process of a distributed grid: DMDAGetCorners gives xs, ys,
\* xm, ym, DMDAGetGhostCorners gives Xs, Ys, Xm, Ym; no element list yet.
LocalDM(xs, xm, ys, ym, Xs, Xm, Ys, Ym) ==
  [xs |-> xs, xm |-> xm, ys |-> ys, ym |-> ym, Xs |-> Xs, Xm |-> Xm,
   Ys |-> Ys, Ym |-> Ym, ne |-> 0, e |-> << >>]

\* The list built for the corners of dm, stored in dm.
WithElementList(dm, el) == [dm EXCEPT !.ne = el.ne, !.e = << el.e >>]

\* DMDAGetElements_2D on the DM of one process of a distributed grid.
DMDAGetElementsLocal(dm) ==
  IF dm.e = << >>
  THEN WithElementList(dm, ElementList(dm.xs, dm.xm, dm.ys, dm.ym,
                                       dm.Xs, dm.Xm, dm.Ys, dm.Ym))
  ELSE dm

\* necon[i * nen + l] of a DM whose element list is built.
Necon(dm, i, l) == dm.e[1][i][l + 1]

\* A DM over the node grid g with no element list built yet.
NewDM(g) == [M |-> g[1], N |-> g[2], ne |-> 0, e |-> << >>]

\* Node coordinates set by DMDASetUniformCoordinates on (0, ne0*dx, 0, ne1*dy).
CoordX(g, sz, n) == R((n % g[1]) * sz[1], 1)

CoordY(g, sz, n) == R((n \div g[1]) * sz[2], 1)

\* ------------------------------------------------------------------------
\* Problem set-up
\* ------------------------------------------------------------------------

\* The nodes edof[0..3] of element i.
Edof(dm, i) == Eager([l \in 0 .. (nedof - 1) |-> Necon(dm, i, l)])

EdofSet(dm, i) == { Necon(dm, i, l) : l \in 0 .. (nedof - 1) }

\* VecSetValuesLocal(v, 4, edof, vals, ADD_VALUES) with all vals equal to val.
VecAddLocal(v, dm, i, val) ==
  Eager([n \in DOMAIN v |-> IF n \in EdofSet(dm, i) THEN RAdd(v[n], val) ELSE v[n]])

\* VecSetValuesLocal(v, 4, edof, vals, INSERT_VALUES) with all vals equal to val.
VecInsertLocal(v, dm, i, val) ==
  Eager([n \in DOMAIN v |-> IF n \in EdofSet(dm, i) THEN val ELSE v[n]])

\* Default scenario: the nodes of the face y = ymin with x in
\* [3/8 xmax, 5/8 xmax] are clamped.
DefaultMask(g, sz) ==
  LET xmax == R((g[1] - 1) * sz[1], 1)
      ymin == Zero
      epsi == RMin(RMul(R(sz[1], 1), R(5, 100)), RMul(R(sz[2], 1), R(5, 100)))
  IN  Eager([n \in Nodes(g) |->
         IF /\ RLess(RAbs(RSub(CoordY(g, sz, n), ymin)), epsi)
            /\ RLeq(RMul(RDiv(xmax, R(8, 1)), R(3, 1)), CoordX(g, sz, n))
            /\ RLeq(CoordX(g, sz, n), RMul(RDiv(xmax, R(8, 1)), R(5, 1)))
         THEN Zero ELSE One])

\* Default scenario: every element adds LoadIntensity / 4 to its four nodes.
RECURSIVE DefaultLoad(_, _, _)
DefaultLoad(dm, i, rhs) ==
  IF i >= dm.ne THEN rhs
  ELSE DefaultLoad(dm, i + 1, VecAddLocal(rhs, dm, i, RMul(R(1, 4), LoadIntensity)))

\* Every element loaded, solid or not.
ImportLoadsAlways(xP0, i) == TRUE

\* Whether element i of the imported geometry carries the body load, and
\* whether its nodes are clamped.
ImportLoads(xP0, i) == xP0[i] = Zero

ImportClamps(xP1, i) == xP1[i] = One

\* Imported geometry: an element whose solid flag is 0 adds LoadIntensity to
\* its four nodes; an element whose fixed flag is 1 clamps its four nodes.
RECURSIVE ImportLoadAndMask(_, _, _, _, _, _)
ImportLoadAndMask(dm, i, rhs, mask, xP0, xP1) ==
  IF i >= dm.ne THEN [RHS |-> rhs, N |-> mask]
  ELSE ImportLoadAndMask(dm, i + 1,
         IF ImportLoads(xP0, i) THEN VecAddLocal(rhs, dm, i, LoadIntensity) ELSE rhs,
         IF ImportClamps(xP1, i) THEN VecInsertLocal(mask, dm, i, Zero) ELSE mask,
         xP0, xP1)

\* SetUpLoadAndBC: the Dirichlet mask N and the load vector RHS.
SetUpLoadAndBC(g, sz, importGeo, xP0, xP1, xP2) ==
  LET dm   == DMDAGetElements_2D(NewDM(g))
      ones == [n \in Nodes(g) |-> One]
      zero == [n \in Nodes(g) |-> Zero]
  IN  IF importGeo = 0
      THEN [N |-> DefaultMask(g, sz), RHS |-> DefaultLoad(dm, 0, zero)]
      ELSE ImportLoadAndMask(dm, 0, zero, ones, xP0, xP1)

\* ------------------------------------------------------------------------
\* Matrix assembler
\* ------------------------------------------------------------------------

\* An event of a call, in program order: << name, argument >>.
Ev(name, arg) == << name, arg >>

\* An interpolation without the offset: Emin + xp^penal * Emax.
SimpNoOffset(x, Emin, Emax, penal) ==
  RAdd(Emin, RMul(PetscPowScalar(x, penal), Emax))

\* SIMP interpolation: Emin + xp^penal * (Emax - Emin).
Simp(x, Emin, Emax, penal) ==
  RAdd(Emin, RMul(PetscPowScalar(x, penal), RSub(Emax, Emin)))

\* The position of node n among the nodes of element i.
LocalIndex(dm, i, n) == CHOOSE l \in 0 .. (nedof - 1) : Necon(dm, i, l) = n

\* MatSetValuesLocal(K, nedof, edof, nedof, edof, ke, ADD_VALUES) with
\* ke = KE * dens.
MatSetValuesLocal(Kmat, dm, i, KEmat, dens) ==
  Eager([r \in DOMAIN Kmat |-> Eager([c \in DOMAIN Kmat |->
     IF r \in EdofSet(dm, i) /\ c \in EdofSet(dm, i)
     THEN RAdd(Kmat[r][c],
               RMul(KEmat[LocalIndex(dm, i, r) + 1][LocalIndex(dm, i, c) + 1], dens))
     ELSE Kmat[r][c]])])

\* The element loop of the assembly, from element i on.
RECURSIVE AssembleLoop(_, _, _, _, _, _, _, _)
AssembleLoop(Kmat, dm, i, KEmat, xp, Emin, Emax, penal) ==
  IF i >= dm.ne THEN Kmat
  ELSE AssembleLoop(
         MatSetValuesLocal(Kmat, dm, i, KEmat, Simp(xp[i], Emin, Emax, penal)),
         dm, i + 1, KEmat, xp, Emin, Emax, penal)

\* MatDiagonalScale(K, N, N): K = diag(N) K diag(N).
MatDiagonalScale(Kmat, l, r) ==
  Eager([i \in DOMAIN Kmat |->
           Eager([j \in DOMAIN Kmat |-> RMul(RMul(l[i], Kmat[i][j]), r[j])])])

\* MatDiagonalSet(K, NI, ADD_VALUES).
MatDiagonalSet(Kmat, d) ==
  Eager([i \in DOMAIN Kmat |-> Eager([j \in DOMAIN Kmat |->
     IF i = j THEN RAdd(Kmat[i][j], d[i]) ELSE Kmat[i][j]])])

\* NI = 1 - N: VecSet(NI, 1.0) followed by VecAXPY(NI, -1.0, N).
VecOneMinus(mask) ==
  Eager([n \in DOMAIN mask |-> RAdd(One, RMul(R(-1, 1), mask[n]))])

\* The elimination with only the rows scaled by the mask.
DirichletRowsOnly(Kmat, mask) ==
  MatDiagonalSet(MatDiagonalScale(Kmat, mask, [n \in DOMAIN mask |-> One]),
                 VecOneMinus(mask))

\* Impose the Dirichlet conditions: K = N' K N + (I - N).
DirichletElimination(Kmat, mask) ==
  MatDiagonalSet(MatDiagonalScale(Kmat, mask, mask), VecOneMinus(mask))

VecPointwiseMult(x, y) == Eager([n \in DOMAIN x |-> RMul(x[n], y[n])])

\* The entries of K left as they are.
MatKeepEntries(Kmat) == Kmat

MatZeroEntries(Kmat) ==
  Eager([i \in DOMAIN Kmat |-> Eager([j \in DOMAIN Kmat |-> Zero])])

\* The events of a complete assembly over ne elements.
AssembleEvents(ne) ==
  << Ev("MatZeroEntries", 0) >>
  \o [i \in 1 .. ne |-> Ev("MatSetValuesLocal", i - 1)]
  \o << Ev("MatAssemblyEnd", 0), Ev("MatDiagonalScale", 0),
        Ev("MatDiagonalSet", 0), Ev("VecPointwiseMult_RHS_N", 0) >>

\* A masking that first doubles the load.
MaskLoadDoubled(rhs, mask) ==
  VecPointwiseMult(Eager([n \in DOMAIN rhs |-> RAdd(rhs[n], rhs[n])]), mask)

\* RHS := RHS .* N: the loads on Dirichlet nodes are zeroed.
MaskLoad(rhs, mask) == VecPointwiseMult(rhs, mask)

\* The assembly once the element list dm is at hand.
AssembleOn(m, dm, xp, Emin, Emax, penal, fault) ==
  IF fault = "MatSetValuesLocal"
  THEN [ierr |-> 1,
        m |-> [m EXCEPT !.da_nodal = dm, !.K = MatZeroEntries(m.K), !.Kx = << >>],
        events |-> << Ev("MatZeroEntries", 0) >>]
  ELSE [ierr |-> 0,
        m |-> [m EXCEPT
                 !.da_nodal = dm,
                 !.K = DirichletElimination(
                         AssembleLoop(MatZeroEntries(m.K), dm, 0, m.KE, xp,
                                      Emin, Emax, penal),
                         m.N),
                 !.Kx = << xp >>,
                 !.RHS = MaskLoad(m.RHS, m.N)],
        events |-> AssembleEvents(dm.ne)]

\* AssembleConductivityMatrix on the members m with the density xp.  fault
\* names the PETSc call that returns an error, if one does: the function
\* returns at its CHKERRQ with the members as they are at that point.
AssembleConductivityMatrix(m, xp, Emin, Emax, penal, fault) ==
  IF fault = "DMDAGetElements"
  THEN [ierr |-> 1, m |-> m, events |-> << >>]
  ELSE AssembleOn(m, DMDAGetElements_2D(m.da_nodal), xp, Emin, Emax, penal, fault)

\* ------------------------------------------------------------------------
\* Linear solver configurator
\* ------------------------------------------------------------------------

\* ksp == NULL.
KspNull ==
  [created |-> FALSE, type |-> "none", maxits |-> 0, guessNonzero |-> FALSE,
   operators |-> "none", pc |-> "none", levels |-> << >>, interp |-> { },
   smoothers |-> { }, configured |-> FALSE]

\* The two checkpoint files, in the working directory "./".
RestartSol00 == "./" \o "/RestartSol00.dat"

RestartSol01 == "./" \o "/RestartSol01.dat"

\* The content of a file that does not exist, and of one whose write was cut.
NoFile == << "absent" >>

Corrupt == << "partial" >>

\* A file that holds the vector v completely.
VecFile(v) == << "vec", v >>

\* fexists(name).
fexists(files, name) == name \in DOMAIN files /\ files[name] # NoFile

\* -restart, PETSC_TRUE unless the option says otherwise.
RestartOption(env) ==
  IF env.opts.restart = "unset" THEN PETSC_TRUE ELSE env.opts.restart

\* Whether SetUpSolver looks for the state vector of an earlier run.
ReadsRestart(env) == RestartOption(env) = PETSC_TRUE /\ ~env.opts.onlyLoadDesign

\* The file of -restartFileVecSol looked for whatever -onlyLoadDesign says.
FindsRestartDespiteOnlyDesign(env) ==
  RestartOption(env) = PETSC_TRUE /\ fexists(env.files, env.opts.restartFileVecSol)

\* Whether it finds the file of -restartFileVecSol.
FindsRestart(env) ==
  ReadsRestart(env) /\ fexists(env.files, env.opts.restartFileVecSol)

\* VecLoad(U, view): U takes the vector of a complete file and stays as it
\* is when the file holds no complete vector.
VecLoad(Uvec, file) == IF file[1] = "vec" THEN file[2] ELSE Uvec

\* The restart block of SetUpSolver: restart and flip are set, the two
\* checkpoint names are fixed when restart is on, and U is loaded from
\* -restartFileVecSol when restart is on, -onlyLoadDesign is off and the file
\* exists.
RestartBlock(m, env) ==
  [m |-> [m EXCEPT
            !.restart = RestartOption(env),
            !.flip = PETSC_TRUE,
            !.filename00 = IF RestartOption(env) = PETSC_TRUE
                           THEN RestartSol00 ELSE m.filename00,
            !.filename01 = IF RestartOption(env) = PETSC_TRUE
                           THEN RestartSol01 ELSE m.filename01,
            !.U = IF FindsRestart(env)
                  THEN VecLoad(m.U, env.files[env.opts.restartFileVecSol])
                  ELSE m.U],
   events |-> (IF ReadsRestart(env)
               THEN << Ev("PetscPrintf_Restarting", 0) >> ELSE << >>)
              \o (IF ReadsRestart(env) /\ ~FindsRestart(env)
                  THEN << Ev("PetscPrintf_NOT_FOUND", 0) >> ELSE << >>)
              \o (IF FindsRestart(env) THEN << Ev("VecLoad_U", 0) >> ELSE << >>)]

\* The grid hierarchy of SetUpSolver for nlvls levels: daclist[0] is da_nodal
\* and daclist[k] its k-th coarsening (named k here); da_list is daclist
\* reversed; one interpolation per adjacent pair of da_list.
DaList(nlvls) == [k \in 1 .. nlvls |-> nlvls - 1 - (k - 1)]

\* The KSP after KSPCreate, with the library's default iteration limit.
KspCreated == [KspNull EXCEPT !.created = TRUE, !.maxits = 10000]

\* The KSP after KSPSetType .. KSPSetOperators and KSPSetFromOptions.
KspFine(env) ==
  [KspCreated EXCEPT !.type = "fgmres", !.maxits = maxitsGlobal,
                     !.guessNonzero = TRUE, !.operators = "K",
                     !.pc = env.opts.pc_type]

\* The KSP after PCMGSetLevels.
KspLevels(env, nlvls) ==
  IF env.opts.pc_type = "mg"
  THEN [KspFine(env) EXCEPT !.levels = DaList(nlvls)]
  ELSE KspFine(env)

\* The KSP at the end of SetUpSolver.
KspConfigured(env, nlvls) ==
  IF env.opts.pc_type = "mg"
  THEN [KspLevels(env, nlvls) EXCEPT
          !.interp = { << DaList(nlvls)[k - 1], DaList(nlvls)[k] >> : k \in 2 .. nlvls },
          !.smoothers = 1 .. (nlvls - 1),
          !.configured = TRUE]
  ELSE [KspFine(env) EXCEPT !.configured = TRUE]

\* Whether the store daclist[0] = da_nodal is outside the allocation of
\* nlvls entries.
StoreOutOfBounds(nlvls) == nlvls < 1

\* The hierarchy arrays from PetscMalloc to the end of the reversal loop:
\* daclist[0] is stored, DMCoarsenHierarchy fills daclist from index 1 with
\* nlvls - 1 grids, and for k = 0 .. nlvls-1 da_list[k] takes
\* daclist[nlvls - 1 - k].  An event ("daclist", i) or ("da_list", i) is an
\* access to entry i of that array.
HierarchyBuildEvents(nlvls) ==
  << Ev("PetscMalloc", nlvls), Ev("daclist", 0), Ev("DMCoarsenHierarchy", nlvls - 1) >>
  \o [t \in 1 .. (2 * nlvls) |->
        IF t % 2 = 1 THEN Ev("daclist", nlvls - 1 - ((t - 1) \div 2))
        ELSE Ev("da_list", (t - 1) \div 2)]

\* The interpolation loop: for k = 1 .. nlvls-1, da_list[k-1] and da_list[k]
\* are read and DMCreateInterpolation makes the operator of level k.
InterpolationEvents(nlvls) ==
  [t \in 1 .. (3 * (nlvls - 1)) |->
     IF t % 3 = 1 THEN Ev("da_list", (t - 1) \div 3)
     ELSE IF t % 3 = 2 THEN Ev("da_list", ((t - 1) \div 3) + 1)
     ELSE Ev("DMCreateInterpolation", ((t - 1) \div 3) + 1)]

\* A clean-up that starts at daclist[0].
TidyUpFromFinest(nlvls) ==
  [t \in 1 .. (2 * (nlvls - 1)) |->
     IF t % 2 = 1 THEN Ev("daclist", (t - 1) \div 2)
     ELSE Ev("DMDestroy", (t - 1) \div 2)]

\* The clean-up: for k = 1 .. nlvls-1, DMDestroy(&daclist[k]).
TidyUpEvents(nlvls) ==
  [t \in 1 .. (2 * (nlvls - 1)) |->
     IF t % 2 = 1 THEN Ev("daclist", ((t - 1) \div 2) + 1)
     ELSE Ev("DMDestroy", ((t - 1) \div 2) + 1)]

\* The events of the multigrid branch.  With fault = "crash" the store
\* outside the allocation ends the process.
MgEvents(nlvls, fault) ==
  IF fault = "crash" /\ StoreOutOfBounds(nlvls)
  THEN << Ev("PetscMalloc", nlvls), Ev("daclist", 0), Ev("SIGSEGV", 0) >>
  ELSE HierarchyBuildEvents(nlvls)
       \o << Ev("PCMGSetLevels", nlvls) >>
       \o (IF fault = "PCMGSetCycleType" THEN << >>
           ELSE InterpolationEvents(nlvls) \o TidyUpEvents(nlvls)
                \o << Ev("PetscPrintf_Linear_solver_settings", 0) >>)

\* The events of SetUpSolver from KSPCreate on, up to the failing call.
SetUpEvents(env, nlvls, fault) ==
  << Ev("KSPCreate", 0) >>
  \o (IF fault = "KSPSetType" THEN << >>
      ELSE << Ev("KSPSetOperators", 0) >>
           \o (IF env.opts.pc_type = "mg" THEN MgEvents(nlvls, fault)
               ELSE << Ev("PetscPrintf_Linear_solver_settings", 0) >>))

\* Whether SetUpSolver stops before its end.
SetUpStops(env, nlvls, fault) ==
  \/ fault = "KSPSetType"
  \/ (fault = "PCMGSetCycleType" /\ env.opts.pc_type = "mg")
  \/ (fault = "crash" /\ env.opts.pc_type = "mg" /\ StoreOutOfBounds(nlvls))

\* SetUpSolver after its restart block rb.
SetUpKsp(rb, env, fault) ==
  [ierr |-> IF SetUpStops(env, rb.m.nlvls, fault) THEN 1 ELSE 0,
   m |-> [rb.m EXCEPT
            !.ksp = IF fault = "KSPSetType" THEN KspCreated
                    ELSE IF fault = "crash" /\ env.opts.pc_type = "mg"
                            /\ StoreOutOfBounds(rb.m.nlvls)
                    THEN KspFine(env)
                    ELSE IF fault = "PCMGSetCycleType" /\ env.opts.pc_type = "mg"
                    THEN KspLevels(env, rb.m.nlvls)
                    ELSE KspConfigured(env, rb.m.nlvls)],
   events |-> rb.events \o SetUpEvents(env, rb.m.nlvls, fault)]

\* SetUpSolver.  fault names the PETSc call that returns an error, if any.
SetUpSolver(m, env, fault) == SetUpKsp(RestartBlock(m, env), env, fault)

\* ------------------------------------------------------------------------
\* SolveState
\* ------------------------------------------------------------------------

\* The set-up test taken as true on every call.
AlwaysNeedsSetUp(k) == TRUE

\* ksp == NULL.
NeedsSetUp(k) == ~k.created

\* The else branch: KSPSetOperators(ksp, K, K) and KSPSetUp(ksp).
RebindOperators(m, fault) ==
  IF fault = "KSPSetOperators"
  THEN [ierr |-> 1, m |-> m, events |-> << >>]
  ELSE [ierr |-> 0, m |-> [m EXCEPT !.ksp.operators = "K"],
        events |-> << Ev("KSPSetOperators", 0), Ev("KSPSetUp", 0) >>]

\* The solver set-up step of SolveState.
ConfigureSolver(m, env, fault) ==
  IF NeedsSetUp(m.ksp)
  THEN [SetUpSolver(m, env, fault) EXCEPT
          !.events = << Ev("SetUpSolver", 0) >> \o @]
  ELSE RebindOperators(m, fault)

\* Whether KSPSolve stopped on convergence.
Converged(reason) == reason = "KSP_CONVERGED_RTOL"

\* An error code that is nonzero also when the solve did not converge.
KSPSolveErrorOnDivergence(in) ==
  IF in.fault = "KSPSolve" \/ (in.fault = "none" /\ ~(in.reason = "KSP_CONVERGED_RTOL"))
  THEN 1 ELSE 0

\* The error code of KSPSolve: an error of the call, never the reason it
\* stopped for.
KSPSolveError(in) == IF in.fault = "KSPSolve" THEN 1 ELSE 0

\* The vector KSPSolve leaves in U: in.U, or the initial guess that is in U
\* when the solve does not touch it.
SolutionOf(m, in) == IF in.touched THEN in.U ELSE m.U

\* What the solve leaves behind: the density K was assembled from, the
\* vector left in U, the reason, and the iteration number
\* KSPGetIterationNumber returns.
Solved(m, in) ==
  [Kx |-> m.Kx, U |-> SolutionOf(m, in), reason |-> in.reason,
   niter |-> IF in.reason = "KSP_DIVERGED_ITS" THEN m.ksp.maxits ELSE 1]

\* SolveState from KSPSolve on: su and rb count the set-ups and rebinds done.
SolveConfigured(ev, su, rb, m, in) ==
  IF KSPSolveError(in) # 0
  THEN [ierr |-> KSPSolveError(in), m |-> m,
        events |-> ev \o << Ev("KSPSolve_begin", 0) >>,
        setups |-> su, rebinds |-> rb, solved |-> << >>]
  ELSE [ierr |-> IF in.fault = "VecNorm" THEN 1 ELSE 0,
        m |-> [m EXCEPT !.U = SolutionOf(m, in)],
        events |-> ev \o << Ev("KSPSolve_begin", 0), Ev("KSPSolve_end", 0) >>
                   \o (IF in.fault = "VecNorm" THEN << >>
                       ELSE << Ev("PetscPrintf_State_solver", Solved(m, in).niter) >>),
        setups |-> su, rebinds |-> rb, solved |-> << Solved(m, in) >>]

\* SolveState from the set-up step on: cfg is what that step returned.
SolveSetUp(ev, first, cfg, in) ==
  IF cfg.ierr # 0
  THEN [ierr |-> cfg.ierr, m |-> cfg.m, events |-> ev \o cfg.events,
        setups |-> IF first THEN 1 ELSE 0, rebinds |-> 0, solved |-> << >>]
  ELSE SolveConfigured(ev \o cfg.events, IF first THEN 1 ELSE 0,
                       IF first THEN 0 ELSE 1, cfg.m, in)

\* SolveState after the assembly asm.
SolveAssembled(asm, env, in) ==
  IF asm.ierr # 0
  THEN [ierr |-> asm.ierr, m |-> asm.m, events |-> asm.events,
        setups |-> 0, rebinds |-> 0, solved |-> << >>]
  ELSE SolveSetUp(asm.events, NeedsSetUp(asm.m.ksp),
                  ConfigureSolver(asm.m, env, in.fault), in)

\* SolveState.  in.fault names the PETSc call that returns an error, if any;
\* in.U and in.reason are what KSPSolve leaves in U and as its reason.
SolveState(m, env, xp, Emin, Emax, penal, in) ==
  SolveAssembled(AssembleConductivityMatrix(m, xp, Emin, Emax, penal, in.fault),
                 env, in)

\* ------------------------------------------------------------------------
\* Response and sensitivity evaluator
\* ------------------------------------------------------------------------

\* The sentinel sensitivities of passive elements.
SolidSensitivity == R(1000000000, 1)

VoidSensitivity == R(-1000000000, 1)

\* uKu = sum over k, h of up[edof[k]] * KE[k][h] * up[edof[h]].
ElementuKu(up, dm, i, KEmat) ==
  SumSeq([t \in 1 .. (nedof * nedof) |->
            RMul(RMul(up[Necon(dm, i, (t - 1) \div nedof)],
                      KEmat[((t - 1) \div nedof) + 1][((t - 1) % nedof) + 1]),
                 up[Necon(dm, i, (t - 1) % nedof)])])

\* Whether element i is in the free design domain.
IsDesignable(xP0, xP1, xP2, i) == xP0[i] = Zero /\ xP1[i] = Zero /\ xP2[i] = Zero

\* The element loop with the fixed / loaded test put before the solid test.
SensitivityBranchVoidFirst(xP0, xP1, xP2, i) ==
  IF IsDesignable(xP0, xP1, xP2, i) THEN "free"
  ELSE IF xP1[i] = One \/ xP2[i] = One THEN "void"
  ELSE IF xP0[i] = One THEN "solid"
  ELSE "none"

\* The branch of the element loop taken for element i: "free", "solid",
\* "void", or "none" when no branch assigns df[i].
SensitivityBranch(xP0, xP1, xP2, i) ==
  IF IsDesignable(xP0, xP1, xP2, i) THEN "free"
  ELSE IF xP0[i] = One THEN "solid"
  ELSE IF xP1[i] = One \/ xP2[i] = One THEN "void"
  ELSE "none"

\* What a free element with density x adds to the objective.
ElementObjective(x, par, uKu) ==
  RMul(Simp(x, par.Emin, par.Emax, par.penal), uKu)

\* A sensitivity with the exponent penal in place of penal - 1.
ElementSensitivityFullPower(x, par, uKu) ==
  RMul(RMul(RMul(RMul(R(-1, 1), R(par.penal, 1)),
                 PetscPowScalar(x, par.penal)),
            RSub(par.Emax, par.Emin)), uKu)

\* The sensitivity of a free element with density x.
ElementSensitivity(x, par, uKu) ==
  RMul(RMul(RMul(RMul(R(-1, 1), R(par.penal, 1)),
                 PetscPowScalar(x, par.penal - 1)),
            RSub(par.Emax, par.Emin)), uKu)

\* One pass of the loop body on element i, taking branch br.
ElementStep(br, acc, i, x, par, uKu) ==
  [fx |-> IF br = "free" THEN RAdd(acc.fx, ElementObjective(x, par, uKu))
          ELSE acc.fx,
   df |-> [acc.df EXCEPT ![i] =
             IF br = "free" THEN ElementSensitivity(x, par, uKu)
             ELSE IF br = "solid" THEN SolidSensitivity
             ELSE IF br = "void" THEN VoidSensitivity
             ELSE @]]

\* The element loop from element i on: acc.fx accumulates the objective and
\* acc.df receives the sensitivities.
RECURSIVE SensitivityLoop(_, _, _, _, _, _, _)
SensitivityLoop(i, acc, m, xp, par, xP, up) ==
  IF i >= m.da_nodal.ne THEN acc
  ELSE SensitivityLoop(i + 1,
         ElementStep(SensitivityBranch(xP[1], xP[2], xP[3], i), acc, i, xp[i], par,
                     ElementuKu(up, m.da_nodal, i, m.KE)),
         m, xp, par, xP, up)

\* VecSum.
RECURSIVE VecSumFrom(_, _)
VecSumFrom(v, i) ==
  IF i \notin DOMAIN v THEN Zero ELSE RAdd(v[i], VecSumFrom(v, i + 1))

VecSum(v) == VecSumFrom(v, 0)

\* VecShift(v, -1) followed by VecScale(v, -1): 1 - v.
InvertMask(v) == Eager([i \in DOMAIN v |-> RMul(RAdd(v[i], R(-1, 1)), R(-1, 1))])

\* A denominator that counts one element too many.
VolumeDenominatorPlusOne(neltot, xP0, xP1, xP2) ==
  RSub(RSub(RSub(R(neltot + 1, 1), VecSum(xP0)), VecSum(xP1)), VecSum(xP2))

\* neltot - nNonDesign0 - nNonDesign1 - nNonDesign2.
VolumeDenominator(neltot, xP0, xP1, xP2) ==
  RSub(RSub(RSub(R(neltot, 1), VecSum(xP0)), VecSum(xP1)), VecSum(xP2))

\* v .* t0 .* t1 .* t2.
MaskThrice(v, t0, t1, t2) ==
  VecPointwiseMult(VecPointwiseMult(VecPointwiseMult(v, t0), t1), t2)

\* gx and dgdx from the three inverted masks and the denominator.
VolumeConstraintBy(xp, volfrac, t0, t1, t2, denom) ==
  [gx   |-> RSub(RDiv(VecSum(MaskThrice(xp, t0, t1, t2)), denom), volfrac),
   dgdx |-> MaskThrice(Eager([i \in DOMAIN xp |-> RDiv(One, denom)]), t0, t1, t2)]

\* The vectors of the evaluation: the density and the three masks of the
\* caller, and the three work vectors, not yet created.
CallerVectors(xp, xP0, xP1, xP2) ==
  [xPhys |-> xp, xPassive0 |-> xP0, xPassive1 |-> xP1, xPassive2 |-> xP2,
   tmpVec0 |-> << >>, tmpVec1 |-> << >>, tmpVec2 |-> << >>]

\* The work vector dst made the caller's vector src itself, then inverted.
InvertedInPlace(vs, src, dst) ==
  [vs EXCEPT ![src] = InvertMask(vs[src]), ![dst] = InvertMask(vs[src])]

\* VecDuplicate, VecCopy(src, dst), VecShift(dst, -1), VecScale(dst, -1):
\* the work vector dst becomes 1 - src.
InvertedCopy(vs, src, dst) == [vs EXCEPT ![dst] = InvertMask(vs[src])]

\* The vectors once the three work vectors hold the inverted masks.
MaskVectors(xp, xP0, xP1, xP2) ==
  InvertedCopy(InvertedCopy(InvertedCopy(CallerVectors(xp, xP0, xP1, xP2),
                                         "xPassive0", "tmpVec0"),
                            "xPassive1", "tmpVec1"),
               "xPassive2", "tmpVec2")

\* gx and dgdx from the vectors vs, which are handed back with them.
WithVectors(vc, vs) == [gx |-> vc.gx, dgdx |-> vc.dgdx, vecs |-> vs]

VolumeConstraintOf(vs, volfrac) ==
  WithVectors(
  VolumeConstraintBy(vs.xPhys, volfrac, vs.tmpVec0, vs.tmpVec1, vs.tmpVec2,
                     VolumeDenominator(Cardinality(DOMAIN vs.xPhys), vs.xPassive0,
                                       vs.xPassive1, vs.xPassive2)),
  vs)

\* The volume constraint and its sensitivity.
VolumeConstraint(xp, volfrac, xP0, xP1, xP2) ==
  VolumeConstraintOf(MaskVectors(xp, xP0, xP1, xP2), volfrac)

\* MPI_Allreduce(MPI_SUM) over the processes' local values.
Allreduce(locals) == SumSeq(locals)

\* Uloc as DMCreateLocalVector leaves it, before U is scattered into it.
UnscatteredLocal(Uvec) == Eager([n \in DOMAIN Uvec |-> Zero])

\* Uloc: the local form of U (DMGlobalToLocal), on the one process.
GlobalToLocal(Uvec) == Uvec

\* The events of the element loop on element i.
ElementEvents(br, i) ==
  (IF br = "free" THEN << Ev("uKu", i) >> ELSE << >>)
  \o (IF br = "none" THEN << >> ELSE << Ev("df", i) >>)

RECURSIVE LoopEvents(_, _, _)
LoopEvents(i, ne, xP) ==
  IF i >= ne THEN << >>
  ELSE ElementEvents(SensitivityBranch(xP[1], xP[2], xP[3], i), i)
       \o LoopEvents(i + 1, ne, xP)

\* The events of the evaluation after SolveState has returned.
SensitivityEvents(m, xP) ==
  << Ev("VecGetArray", "xPhys"), Ev("VecGetArray", "xPassive0"),
     Ev("VecGetArray", "xPassive1"), Ev("VecGetArray", "xPassive2"),
     Ev("DMGlobalToLocal_U", 0), Ev("VecGetArray", "Uloc"),
     Ev("VecGetArray", "dfdx") >>
  \o LoopEvents(0, m.da_nodal.ne, xP)
  \o << Ev("MPI_Allreduce_fx", 0), Ev("VecSum_gx", 0), Ev("VecSet_dgdx", 0),
        Ev("VecRestoreArray", "xPhys"), Ev("VecGetArray", "xPassive0"),
        Ev("VecGetArray", "xPassive1"), Ev("VecGetArray", "xPassive2"),
        Ev("VecRestoreArray", "Uloc"), Ev("VecRestoreArray", "dfdx") >>

\* The results handed back: lp from the element loop, vc the constraint.
Responses(lp, vc) ==
  [fx |-> Allreduce(<< lp.fx >>), gx |-> vc.gx, dfdx |-> lp.df, dgdx |-> vc.dgdx]

\* The evaluation after SolveState has returned ss, with vc the volume
\* constraint; caller holds the caller's density and masks on return.
EvaluateWith(ss, o, xp, par, xP, vc) ==
  [ierr |-> 0, m |-> ss.m,
   o |-> Responses(
           SensitivityLoop(0, [fx |-> Zero, df |-> o.dfdx], ss.m, xp, par, xP,
                           GlobalToLocal(ss.m.U)),
           vc),
   ss |-> ss,
   events |-> ss.events \o SensitivityEvents(ss.m, xP),
   caller |-> vc.vecs]

\* The evaluation after SolveState has returned ss.
EvaluateSolved(ss, o, xp, par, xP) ==
  IF ss.ierr # 0
  THEN [ierr |-> ss.ierr, m |-> ss.m, o |-> o, ss |-> ss, events |-> ss.events,
        caller |-> CallerVectors(xp, xP[1], xP[2], xP[3])]
  ELSE EvaluateWith(ss, o, xp, par, xP,
                    VolumeConstraint(xp, par.volfrac, xP[1], xP[2], xP[3]))

\* ComputeObjectiveConstraintsSensitivities: o holds the caller's fx, gx,
\* dfdx and dgdx, par the scalar arguments, xP the three passive masks.
ComputeObjectiveConstraintsSensitivities(m, env, o, xp, par, xP, in) ==
  EvaluateSolved(SolveState(m, env, xp, par.Emin, par.Emax, par.penal, in),
                 o, xp, par, xP)

\* ------------------------------------------------------------------------
\* Checkpoint writer
\* ------------------------------------------------------------------------

\* The values a read of a PetscBool member can give: either, while no
\* assignment has initialised it.
ReadBool(b) == IF b = Indeterminate THEN { PETSC_TRUE, PETSC_FALSE } ELSE { b }

\* flip left as it is.
KeepFlip(fl) == fl

\* if (flip) flip = PETSC_FALSE; else flip = PETSC_TRUE.
ToggleFlip(fl) == IF fl = PETSC_TRUE THEN PETSC_FALSE ELSE PETSC_TRUE

\* The file opened for writing once flip is toggled.
RestartTarget(m) == IF m.flip # PETSC_TRUE THEN m.filename00 ELSE m.filename01

\* PetscViewerBinaryOpen(target, FILE_MODE_WRITE) and VecView(U): the file is
\* truncated and then holds U, or part of it when the write is cut.  A name
\* that cannot be opened leaves every file as it is.
VecView(files, target, Uvec, cut) ==
  IF target \in DOMAIN files
  THEN [files EXCEPT ![target] = IF cut THEN Corrupt ELSE VecFile(Uvec)]
  ELSE files

\* WriteRestartFiles after the test of restart, with flip toggled in m.
WriteToggled(m, files, cut) ==
  [ret |-> 0, m |-> m, files |-> VecView(files, RestartTarget(m), m.U, cut),
   target |-> RestartTarget(m)]

\* WriteRestartFiles: rs and fl are what the reads of restart and flip give.
WriteRestartFiles(m, files, rs, fl, cut) ==
  IF rs # PETSC_TRUE
  THEN [ret |-> -1, m |-> m, files |-> files, target |-> "none"]
  ELSE WriteToggled([m EXCEPT !.flip = ToggleFlip(fl)], files, cut)

\* ------------------------------------------------------------------------
\* State
\* ------------------------------------------------------------------------

VARIABLES
  da_nodes,     \* the input node grid: [g |-> <<M, N>>, sz |-> <<dx, dy>>]
  IMPORT_GEO,   \* the build's scenario switch
  xPassive0,    \* solid flag per element
  xPassive1,    \* fixed flag per element
  xPassive2,    \* loaded flag per element
  da_nodal,     \* the nodal DM of the instance, with its cached element list
  KE,           \* the element matrix
  K,            \* the global conductivity matrix
  Kx,           \* history: << the density K was last completely assembled from >>
  U,            \* the temperature field
  RHS,          \* the load vector
  N,            \* the Dirichlet mask
  ksp,          \* the Krylov solver, KspNull while ksp == NULL
  restart,      \* PetscBool member
  flip,         \* PetscBool member
  filename00,   \* checkpoint file names
  filename01,
  nlvls,        \* multigrid levels
  xPhys,        \* the density vector of the last call, as the call left it
  out,          \* the caller's fx, gx, dfdx, dgdx
  call,         \* what the last call did: its name, arguments, return code, events
  setUpRuns,    \* history: how often SetUpSolver was entered
  env,          \* options and files: [opts |-> ..., files |-> ...]
  ckpt,         \* history of the checkpoint files
  alive,        \* FALSE once the destructor has run
  kernel        \* a direct call of an element-kernel function: [fn, args, result]

vars ==
  << da_nodes, IMPORT_GEO, xPassive0, xPassive1, xPassive2, da_nodal, KE, K, Kx,
     U, RHS, N, ksp, restart, flip, filename00, filename01, nlvls, xPhys, out,
     call, setUpRuns, env, ckpt, alive, kernel >>

\* The members of the instance as one record.
Members ==
  [da_nodal |-> da_nodal, KE |-> KE, K |-> K, Kx |-> Kx, U |-> U, RHS |-> RHS,
   N |-> N, ksp |-> ksp, restart |-> restart, flip |-> flip,
   filename00 |-> filename00, filename01 |-> filename01, nlvls |-> nlvls]

SetMembers(m) ==
  /\ da_nodal' = m.da_nodal
  /\ KE' = m.KE
  /\ K' = m.K
  /\ Kx' = m.Kx
  /\ U' = m.U
  /\ RHS' = m.RHS
  /\ N' = m.N
  /\ ksp' = m.ksp
  /\ restart' = m.restart
  /\ flip' = m.flip
  /\ filename00' = m.filename00
  /\ filename01' = m.filename01
  /\ nlvls' = m.nlvls

Passive == << xPassive0, xPassive1, xPassive2 >>

\* ------------------------------------------------------------------------
\* Inputs of the calls
\* ------------------------------------------------------------------------

UniformOne(g) == Eager([i \in Elems(g) |-> One])

\* A density field that differs from element to element: 1/2, 1/3, ...
Graded(g) == Eager([i \in Elems(g) |-> R(1, i + 2)])

DensityFields(g) == { UniformOne(g), Graded(g) }

\* The density v on every element.
UniformAt(g, v) == Eager([i \in Elems(g) |-> v])

\* The scalar arguments of a call.
Pars ==
  { [Emin |-> Zero,      Emax |-> R(2, 1), penal |-> 3, volfrac |-> R(1, 2)],
    [Emin |-> R(1, 10),  Emax |-> R(2, 1), penal |-> 1, volfrac |-> R(1, 2)],
    [Emin |-> R(1, 10),  Emax |-> R(3, 1), penal |-> 3, volfrac |-> R(1, 4)] }

\* The optimizer passes the same scalar arguments on every call of a run.
ParChoices == IF call.par = << >> THEN Pars ELSE { call.par[1] }

\* What KSPSolve may leave behind: a vector in U and a reason.  The vectors
\* stand for any result; the last one is the initial guess, untouched.
SolveOutcomes(m, g) ==
  { [fault |-> "none", touched |-> TRUE, U |-> Eager([n \in Nodes(g) |-> R(n, 1)]),
     reason |-> "KSP_CONVERGED_RTOL"],
    [fault |-> "none", touched |-> TRUE,
     U |-> Eager([n \in Nodes(g) |-> R(1 + ((n * n) % 3), 2)]),
     reason |-> "KSP_DIVERGED_ITS"],
    [fault |-> "none", touched |-> FALSE, U |-> m.U, reason |-> "KSP_DIVERGED_DTOL"] }

\* The PETSc calls behind a CHKERRQ that can fail in a SolveState call.
Faults(m) ==
  { "MatSetValuesLocal", "KSPSolve", "VecNorm" }
  \cup (IF m.da_nodal.e = << >> THEN { "DMDAGetElements" } ELSE { })
  \cup (IF m.ksp.created THEN { "KSPSetOperators" }
        ELSE { "KSPSetType", "PCMGSetCycleType" })

\* The outcomes of undefined behaviour other than going on: the store
\* outside the hierarchy array ends the process.
UndefinedOutcomes(m) ==
  IF ~m.ksp.created /\ env.opts.pc_type = "mg" /\ StoreOutOfBounds(m.nlvls)
  THEN { "crash" } ELSE { }

\* A failing call, tried on the uniform density.
FaultInput(m, g, par, f) ==
  [xp |-> UniformOne(g), par |-> par,
   in |-> [fault |-> f, touched |-> FALSE, U |-> m.U, reason |-> "none"]]

\* The inputs of an evaluation: every parameter set with every density and
\* a converged solve, with the uniform density and every other solver
\* outcome, and with the density equal to volfrac everywhere; and every
\* failing PETSc call.
CallInputs(m, g) ==
  { [xp |-> c[1], par |-> par, in |-> c[2]] :
      c \in { c \in DensityFields(g) \X SolveOutcomes(m, g) :
                c[1] = UniformOne(g) \/ c[2].reason = "KSP_CONVERGED_RTOL" },
      par \in ParChoices }
  \cup { [xp |-> UniformAt(g, par.volfrac), par |-> par,
           in |-> CHOOSE in \in SolveOutcomes(m, g) : in.reason = "KSP_CONVERGED_RTOL"] :
           par \in ParChoices }
  \cup { FaultInput(m, g, CHOOSE par \in ParChoices : TRUE, f) :
           f \in Faults(m) \cup UndefinedOutcomes(m) }

\* The inputs of a direct SolveState call in the checkpointing runs: the
\* k-th solve leaves a vector of its own in U, or fails to converge and
\* leaves U as it is, or a call of the assembly or of the solver set-up
\* fails; the failing calls are tried in the first run of the program.
SolveInputs(m, g, k) ==
  { [xp |-> UniformOne(g), par |-> CHOOSE par \in Pars : par.penal = 1,
     in |-> in] :
      in \in { [fault |-> "none", touched |-> TRUE,
                U |-> Eager([n \in Nodes(g) |-> R(n + k, 1)]),
                reason |-> "KSP_CONVERGED_RTOL"],
               [fault |-> "none", touched |-> FALSE, U |-> m.U,
                reason |-> "KSP_DIVERGED_ITS"] } }
  \cup { FaultInput(m, g, CHOOSE par \in Pars : par.penal = 1, f) :
           f \in IF ckpt.launches > 1 THEN { }
                 ELSE Faults(m) \cap { "MatSetValuesLocal", "KSPSetType",
                                       "PCMGSetCycleType", "KSPSetOperators" } }

\* ------------------------------------------------------------------------
\* Initial state: the constructor has run
\* ------------------------------------------------------------------------

DefaultOpts ==
  [restart |-> "unset", onlyLoadDesign |-> FALSE, restartFileVecSol |-> "",
   pc_type |-> "mg", nlvls |-> << >>]

NoFiles == [f \in { RestartSol00, RestartSol01 } |-> NoFile]

NoCall ==
  [op |-> "constructor", ierr |-> 0, events |-> << >>, setups |-> 0, rebinds |-> 0,
   solved |-> << >>, kspBefore |-> FALSE, par |-> << >>, xp |-> << >>,
   fault |-> "none", reason |-> "none", redesign |-> FALSE, n |-> 0]

\* No save yet.  saves: the completed saves since the solver was set up;
\* attempts: the WriteRestartFiles calls of all runs; target and prev: the
\* files of the last two completed saves of this run; lastGood: the file of
\* the most recently completed save of any run; cut: the file an interrupted
\* write was writing; launches: the runs of the program so far.
NoCkpt == [saves |-> 0, attempts |-> 0, target |-> "none", prev |-> "none",
           lastGood |-> "none", cut |-> "none", launches |-> 1]

ZeroVec(S) == Eager([i \in S |-> Zero])

\* No direct call of a kernel function.
NoKernel == [fn |-> "none", args |-> << >>, result |-> << >>]

\* PetscOptionsGetInt: the value of the option when it is given (<< v >>),
\* and the variable as it is when it is not (<< >>).
PetscOptionsGetInt(opt, var) == IF opt = << >> THEN var ELSE opt[1]

\* The members after the constructor, lb being what SetUpLoadAndBC returned
\* and lvls the value of nlvls.
NewMembers(g, sz, lb, lvls) ==
  [da_nodal |-> NewDM(g), KE |-> KEof[sz],
   K |-> Eager([i \in Nodes(g) |-> ZeroVec(Nodes(g))]), Kx |-> << >>,
   U |-> ZeroVec(Nodes(g)), RHS |-> lb.RHS, N |-> lb.N, ksp |-> KspNull,
   restart |-> Indeterminate, flip |-> Indeterminate,
   filename00 |-> "", filename01 |-> "", nlvls |-> lvls]

\* The constructor: members nulled, nlvls read, SetUpLoadAndBC run.
Constructor(g, sz, ig, xP0, xP1, xP2, opts) ==
  NewMembers(g, sz, SetUpLoadAndBC(g, sz, ig, xP0, xP1, xP2),
             PetscOptionsGetInt(opts.nlvls, DefaultNlvls))

NoOut(g) ==
  [fx |-> Zero, gx |-> Zero, dfdx |-> ZeroVec(Elems(g)), dgdx |-> ZeroVec(Elems(g))]

\* The state of a run whose constructor has returned the members m.
Constructed(g, sz, ig, xP0, xP1, xP2, m) ==
  /\ da_nodes = [g |-> g, sz |-> sz]
  /\ IMPORT_GEO = ig
  /\ xPassive0 = xP0
  /\ xPassive1 = xP1
  /\ xPassive2 = xP2
  /\ da_nodal = m.da_nodal
  /\ KE = m.KE
  /\ K = m.K
  /\ Kx = m.Kx
  /\ U = m.U
  /\ RHS = m.RHS
  /\ N = m.N
  /\ ksp = m.ksp
  /\ restart = m.restart
  /\ flip = m.flip
  /\ filename00 = m.filename00
  /\ filename01 = m.filename01
  /\ nlvls = m.nlvls
  /\ xPhys = ZeroVec(Elems(g))
  /\ out = NoOut(g)
  /\ call = NoCall
  /\ setUpRuns = 0
  /\ alive = TRUE

Flags(g) == [Elems(g) -> { Zero, One }]

\* The flag assignments of the imported geometries: every combination of
\* the solid and the fixed flag on every element; the void flag on the
\* first element, in every combination with its other two flags, while the
\* other elements are free or solid.
ImportFlags(g) ==
  { xP \in Flags(g) \X Flags(g) \X Flags(g) :
      \A i \in Elems(g) :
         i > 0 => /\ xP[3][i] = Zero
                  /\ xP[3][0] = One => xP[2][i] = Zero }

\* The build without imported geometry (no passive element) and the build
\* with it.
Scenarios(g) ==
  { [ig |-> 0, xP |-> << ZeroVec(Elems(g)), ZeroVec(Elems(g)), ZeroVec(Elems(g)) >>] }
  \cup { [ig |-> 1, xP |-> xP] : xP \in ImportFlags(g) }

\* The values of -nlvls on the command lines: not given, negative, zero,
\* one level, two levels.
NlvlsOptions == { << >>, << -1 >>, << 0 >>, << 1 >>, << 2 >> }

\* The command lines of the evaluation runs: -nlvls is varied on the
\* one-element mesh of the build without imported geometry.
EvaluationOpts(ig, g) ==
  IF ig = 0 /\ NumElems(g) = 1
  THEN { [DefaultOpts EXCEPT !.nlvls = v] : v \in NlvlsOptions }
  ELSE { DefaultOpts }

Init ==
  /\ \E g \in NodeGrids, sz \in ElemSizes :
       \E sc \in Scenarios(g) :
          \E o \in EvaluationOpts(sc.ig, g) :
             \E m \in { Constructor(g, sz, sc.ig, sc.xP[1], sc.xP[2], sc.xP[3], o) } :
                /\ Constructed(g, sz, sc.ig, sc.xP[1], sc.xP[2], sc.xP[3], m)
                /\ env = [opts |-> o, files |-> NoFiles]
  /\ ckpt = NoCkpt
  /\ kernel = NoKernel

\* ------------------------------------------------------------------------
\* Actions
\* ------------------------------------------------------------------------

\* What a call that ran SolveState leaves in the call record.
CallRecord(op, a, ierr, events, ss) ==
  [op |-> op, ierr |-> ierr, events |-> events, setups |-> ss.setups,
   rebinds |-> ss.rebinds, solved |-> ss.solved, kspBefore |-> ksp.created,
   par |-> << a.par >>, xp |-> << a.xp >>, fault |-> a.in.fault,
   reason |-> a.in.reason, redesign |-> (Kx # << >> /\ Kx[1] # a.xp),
   n |-> call.n + 1]

\* Whether the process was ended during the call that made the events.
Crashed(events) == \E k \in DOMAIN events : events[k][1] = "SIGSEGV"

\* A call of ComputeObjectiveConstraintsSensitivities.
Evaluate ==
  /\ alive
  /\ call.n < MaxCalls
  /\ \E a \in CallInputs(Members, da_nodes.g) :
        \E r \in { ComputeObjectiveConstraintsSensitivities(
                     Members, env, out, a.xp, a.par, Passive, a.in) } :
           /\ SetMembers(r.m)
           /\ xPhys' = r.caller.xPhys
           /\ xPassive0' = r.caller.xPassive0
           /\ xPassive1' = r.caller.xPassive1
           /\ xPassive2' = r.caller.xPassive2
           /\ out' = r.o
           /\ call' = CallRecord("ComputeObjectiveConstraintsSensitivities", a,
                                 r.ierr, r.events, r.ss)
           /\ setUpRuns' = setUpRuns + r.ss.setups
           /\ alive' = ~Crashed(r.events)
           /\ ckpt' = IF r.ss.setups = 1 THEN [ckpt EXCEPT !.saves = 0] ELSE ckpt
  /\ UNCHANGED kernel
  /\ UNCHANGED << da_nodes, IMPORT_GEO, env >>

Next == Evaluate

Spec == Init /\ [][Next]_vars

\* ------------------------------------------------------------------------
\* Checkpointing runs: direct SolveState calls, saves, interrupted saves,
\* the end of the run and the next run of the program on the same files
\* ------------------------------------------------------------------------

\* The grid of the checkpointing runs.
RestartGrid == << 3, 2 >>

\* The command lines of a run: -restart and -restartFileVecSol are varied
\* with the multigrid preconditioner, and -onlyLoadDesign and -pc_type with
\* restart on.
RestartOpts ==
  [restart : { "unset" }, onlyLoadDesign : { FALSE },
   restartFileVecSol : { "", RestartSol00 }, pc_type : { "mg" }, nlvls : { << >> }]
  \cup [restart : { PETSC_FALSE }, onlyLoadDesign : { FALSE },
        restartFileVecSol : { RestartSol00 }, pc_type : { "mg" }, nlvls : { << >> }]
  \cup [restart : { "unset" }, onlyLoadDesign : { TRUE },
        restartFileVecSol : { RestartSol00 }, pc_type : { "mg" }, nlvls : { << >> }]
  \cup [restart : { "unset" }, onlyLoadDesign : { FALSE },
        restartFileVecSol : { "" }, pc_type : { "jacobi" }, nlvls : { << >> }]

InitRestart ==
  /\ \E sz \in ElemSizes :
       \E sc \in { s \in Scenarios(RestartGrid) : s.ig = 0 } :
          \E m \in { Constructor(RestartGrid, sz, sc.ig, sc.xP[1], sc.xP[2], sc.xP[3],
                                  DefaultOpts) } :
             Constructed(RestartGrid, sz, sc.ig, sc.xP[1], sc.xP[2], sc.xP[3], m)
  /\ \E o \in RestartOpts : env = [opts |-> o, files |-> NoFiles]
  /\ ckpt = NoCkpt
  /\ kernel = NoKernel

\* A direct call of SolveState.
SolveStateCall ==
  /\ alive
  /\ call.n < MaxCalls
  /\ \E a \in SolveInputs(Members, da_nodes.g, call.n + 1) :
        \E r \in { SolveState(Members, env, a.xp, a.par.Emin, a.par.Emax,
                              a.par.penal, a.in) } :
           /\ SetMembers(r.m)
           /\ xPhys' = a.xp
           /\ call' = CallRecord("SolveState", a, r.ierr, r.events, r)
           /\ setUpRuns' = setUpRuns + r.setups
           /\ ckpt' = IF r.setups = 1 THEN [ckpt EXCEPT !.saves = 0] ELSE ckpt
  /\ UNCHANGED kernel
  /\ UNCHANGED << da_nodes, IMPORT_GEO, xPassive0, xPassive1, xPassive2, env, alive,
                  out >>

\* What a WriteRestartFiles call leaves in the call record.
SaveRecord(op, ret) ==
  [NoCall EXCEPT !.op = op, !.ierr = ret, !.kspBefore = ksp.created,
                 !.par = call.par, !.n = call.n]

\* The checkpoint history after the call w that ran to its end.
Saved(w) ==
  IF w.ret # 0 THEN [ckpt EXCEPT !.attempts = @ + 1]
  ELSE [ckpt EXCEPT !.attempts = @ + 1, !.saves = @ + 1, !.prev = ckpt.target,
                    !.target = w.target,
                    !.lastGood = IF w.target \in DOMAIN env.files
                                 THEN w.target ELSE @]

\* A call of WriteRestartFiles that runs to its end.
WriteRestartFilesCall ==
  /\ alive
  /\ ckpt.attempts < MaxSaves
  /\ \E rs \in ReadBool(restart), fl \in ReadBool(flip) :
        \E w \in { WriteRestartFiles(Members, env.files, rs, fl, FALSE) } :
           /\ SetMembers(w.m)
           /\ env' = [env EXCEPT !.files = w.files]
           /\ ckpt' = Saved(w)
           /\ call' = SaveRecord("WriteRestartFiles", w.ret)
  /\ UNCHANGED kernel
  /\ UNCHANGED << da_nodes, IMPORT_GEO, xPassive0, xPassive1, xPassive2, xPhys, out,
                  setUpRuns, alive >>

\* A call of WriteRestartFiles during whose write the run is killed.
InterruptedWrite ==
  /\ alive
  /\ ckpt.attempts < MaxSaves
  /\ \E rs \in ReadBool(restart), fl \in ReadBool(flip) :
        \E w \in { WriteRestartFiles(Members, env.files, rs, fl, TRUE) } :
           /\ w.ret = 0
           /\ w.target \in DOMAIN env.files
           /\ SetMembers(w.m)
           /\ env' = [env EXCEPT !.files = w.files]
           /\ ckpt' = [ckpt EXCEPT !.attempts = @ + 1, !.cut = w.target]
           /\ call' = SaveRecord("WriteRestartFiles_interrupted", 0)
  /\ alive' = FALSE
  /\ UNCHANGED kernel
  /\ UNCHANGED << da_nodes, IMPORT_GEO, xPassive0, xPassive1, xPassive2, xPhys, out,
                  setUpRuns >>

\* The destructor: the vectors, the matrix and the KSP are destroyed.
Destructor ==
  /\ alive
  /\ alive' = FALSE
  /\ ksp' = KspNull
  /\ call' = SaveRecord("destructor", 0)
  /\ UNCHANGED kernel
  /\ UNCHANGED << da_nodes, IMPORT_GEO, xPassive0, xPassive1, xPassive2, da_nodal,
                  KE, K, Kx, U, RHS, N, restart, flip, filename00, filename01,
                  nlvls, xPhys, out, setUpRuns, env, ckpt >>

\* The program is started again in the same working directory, with
\* -restartFileVecSol naming nothing or one of the two checkpoints.
Relaunch ==
  /\ ~alive
  /\ ckpt.launches < MaxLaunches
  /\ \E f \in { "", RestartSol00, RestartSol01 } :
        env' = [env EXCEPT !.opts.restartFileVecSol = f]
  /\ \E m \in { Constructor(da_nodes.g, da_nodes.sz, IMPORT_GEO,
                            xPassive0, xPassive1, xPassive2, env.opts) } :
        SetMembers(m)
  /\ xPhys' = ZeroVec(Elems(da_nodes.g))
  /\ out' = NoOut(da_nodes.g)
  /\ call' = [NoCall EXCEPT !.n = call.n]
  /\ setUpRuns' = 0
  /\ ckpt' = [ckpt EXCEPT !.launches = @ + 1, !.saves = 0, !.target = "none",
                          !.prev = "none", !.cut = "none"]
  /\ alive' = TRUE
  /\ UNCHANGED kernel
  /\ UNCHANGED << da_nodes, IMPORT_GEO, xPassive0, xPassive1, xPassive2 >>

NextRestart ==
  \/ SolveStateCall
  \/ WriteRestartFilesCall
  \/ InterruptedWrite
  \/ Destructor
  \/ Relaunch

SpecRestart == InitRestart /\ [][NextRestart]_vars

\* ------------------------------------------------------------------------
\* Direct calls of the element-kernel functions
\* ------------------------------------------------------------------------

\* Scalars as numbers a + b*g.
Coords(v) == [i \in DOMAIN v |-> GConst(R(v[i], 1))]

ScalarRows(J) == [i \in DOMAIN J |-> Coords(J[i])]

\* Quadrilaterals (0,0), (x2,0), (x3,y3), (x4,y4): rectangles, trapezia,
\* kites, and with x2 < 0 quadrilaterals numbered clockwise.
QuadShapes ==
  { [X |-> << 0, x2, p3[1], x4 >>, Y |-> << 0, 0, p3[2], y4 >>] :
      x2 \in { -1, 1, 2 }, p3 \in { 1, 2 } \X { 1, 2 }, x4 \in { 0, 1 }, y4 \in { 1, 2 } }

\* The hexahedron over the a-by-1 rectangle whose top face is at height
\* hs[1], shifted by s along x, with its third corner at height hs[2].
HexShape(a, s, hs) ==
  [X |-> << 0, a, a, 0, s, a + s, a + s, s >>,
   Y |-> << 0, 0, 1, 1, 0, 0, 1, 1 >>,
   Z |-> << 0, 0, 0, 0, hs[1], hs[1], hs[2], hs[1] >>]

\* Boxes, sheared boxes, boxes with a raised corner, and with a negative
\* height elements turned inside out.  The long sheared box with a raised
\* corner is left out: its exact fractions need more than 32 bits.
HexShapes ==
  { HexShape(c[1], c[2], c[3]) :
      c \in { c \in { 1, 2 } \X { 0, 1 } \X { << 1, 1 >>, << 1, 2 >>, << -1, -1 >> } :
                ~(c[1] = 2 /\ c[2] = 1 /\ c[3][2] = 2) } }

\* 2x2 and 3x3 matrices, singular ones among them.
Matrices2 == { << << a, b >>, << c, d >> >> : a \in -1 .. 2, b \in -1 .. 2, c \in -1 .. 2, d \in -1 .. 2 }

Matrices3 ==
  { << r1, r2, r3 >> :
      r1 \in { -1, 0, 2 } \X { -1, 0, 2 } \X { -1, 0, 2 },
      r2 \in { 0, 1 } \X { 0, 1 } \X { 0, 1 },
      r3 \in { << 0, 0, 1 >>, << 1, 1, 0 >>, << 1, -1, 1 >> } }

\* The largest number of nodes along an axis of a distributed grid.
MaxAxisNodes == 4

RECURSIVE NodeCount(_)
NodeCount(l) == IF l = << >> THEN 0 ELSE Head(l) + NodeCount(Tail(l))

\* The ways to hand the n nodes of an axis to processes: every process owns
\* at least one node (the ghost width).
Ownerships(n) ==
  { l \in UNION { [1 .. k -> 1 .. n] : k \in 1 .. n } : NodeCount(l) = n }

\* DMDAGetCorners along one axis: the first node of process p.
OwnedStart(l, p) == NodeCount(SubSeq(l, 1, p - 1))

\* DMDAGetGhostCorners along one axis, ghost width 1, no periodicity.
GhostStart(l, p) == IF OwnedStart(l, p) = 0 THEN 0 ELSE OwnedStart(l, p) - 1

GhostEnd(l, p) ==
  IF p = Len(l) THEN OwnedStart(l, p) + l[p] ELSE OwnedStart(l, p) + l[p] + 1

\* The DM of process (p, q) of a grid whose columns are owned as lx says and
\* whose rows as ly says.
ProcessDM(lx, ly, p, q) ==
  LocalDM(OwnedStart(lx, p), lx[p], OwnedStart(ly, q), ly[q],
          GhostStart(lx, p), GhostEnd(lx, p) - GhostStart(lx, p),
          GhostStart(ly, q), GhostEnd(ly, q) - GhostStart(ly, q))

Processes(lx, ly) == (1 .. Len(lx)) \X (1 .. Len(ly))

KernelCall(fn, args) == [fn |-> fn, args |-> args, result |-> << >>]

KernelInputs ==
  { KernelCall("Quad4Isoparametric", << q.X, q.Y, redInt >>) :
      q \in QuadShapes, redInt \in { 0, 1 } }
  \cup { KernelCall("Hex8Isoparametric", << h.X, h.Y, h.Z, redInt >>) :
           h \in HexShapes, redInt \in { 0, 1 } }
  \cup { KernelCall("Inverse2M", << J >>) : J \in Matrices2 }
  \cup { KernelCall("Inverse3M", << J >>) : J \in Matrices3 }
  \cup { KernelCall("DMDAGetElements_2D", << lx, ly >>) :
           lx \in UNION { Ownerships(m) : m \in 2 .. MaxAxisNodes },
           ly \in UNION { Ownerships(n) : n \in 2 .. MaxAxisNodes } }

\* One instance, on which no operation is called, and one pending call of
\* a kernel function.
InitKernel ==
  /\ \E g \in { << 2, 2 >> }, sz \in ElemSizes :
       \E m \in { Constructor(g, sz, 0, ZeroVec(Elems(g)), ZeroVec(Elems(g)),
                              ZeroVec(Elems(g)), DefaultOpts) } :
          Constructed(g, sz, 0, ZeroVec(Elems(g)), ZeroVec(Elems(g)),
                      ZeroVec(Elems(g)), m)
  /\ env = [opts |-> DefaultOpts, files |-> NoFiles]
  /\ ckpt = NoCkpt
  /\ kernel \in KernelInputs

instanceVars ==
  << da_nodes, IMPORT_GEO, xPassive0, xPassive1, xPassive2, da_nodal, KE, K,
     Kx, U, RHS, N, ksp, restart, flip, filename00, filename01, nlvls, xPhys,
     out, call, setUpRuns, env, ckpt, alive >>

Pending(fn) == kernel.fn = fn /\ kernel.result = << >>

Quad4IsoparametricCall ==
  /\ Pending("Quad4Isoparametric")
  /\ kernel' = [kernel EXCEPT !.result =
                  << Quad4Isoparametric(Coords(kernel.args[1]),
                                        Coords(kernel.args[2]), kernel.args[3]) >>]
  /\ UNCHANGED instanceVars

Hex8IsoparametricCall ==
  /\ Pending("Hex8Isoparametric")
  /\ kernel' = [kernel EXCEPT !.result =
                  << Hex8Isoparametric(Coords(kernel.args[1]), Coords(kernel.args[2]),
                                       Coords(kernel.args[3]), kernel.args[4]) >>]
  /\ UNCHANGED instanceVars

Inverse2MCall ==
  /\ Pending("Inverse2M")
  /\ kernel' = [kernel EXCEPT !.result = << Inverse2M(ScalarRows(kernel.args[1])) >>]
  /\ UNCHANGED instanceVars

Inverse3MCall ==
  /\ Pending("Inverse3M")
  /\ kernel' = [kernel EXCEPT !.result = << Inverse3M(ScalarRows(kernel.args[1])) >>]
  /\ UNCHANGED instanceVars

\* Every process of the distributed grid calls DMDAGetElements_2D on its DM:
\* the first call builds the lists, the second call finds them built.
DMDAGetElementsCall ==
  /\ kernel.fn = "DMDAGetElements_2D"
  /\ Len(kernel.result) < 2
  /\ kernel' = [kernel EXCEPT !.result =
                  Append(kernel.result,
                         [pq \in Processes(kernel.args[1], kernel.args[2]) |->
                            DMDAGetElementsLocal(
                              IF kernel.result = << >>
                              THEN ProcessDM(kernel.args[1], kernel.args[2],
                                             pq[1], pq[2])
                              ELSE kernel.result[1][pq])])]
  /\ UNCHANGED instanceVars

NextKernel ==
  \/ Quad4IsoparametricCall
  \/ Hex8IsoparametricCall
  \/ Inverse2MCall
  \/ Inverse3MCall
  \/ DMDAGetElementsCall

SpecKernel == InitKernel /\ [][NextKernel]_vars

\* ------------------------------------------------------------------------
\* Properties
\* ------------------------------------------------------------------------

\* The last call was an evaluation that returned 0.
Evaluated == call.op = "ComputeObjectiveConstraintsSensitivities" /\ call.ierr = 0

\* C1 as stated: after an evaluation, every element with the solid flag has
\* dfdx = +1e9 and every element with the fixed or the loaded flag has
\* dfdx = -1e9, whatever other flags it carries.
C1_SentinelsAsStated ==
  Evaluated =>
    \A i \in Elems(da_nodes.g) :
      /\ xPassive0[i] = One => out.dfdx[i] = << 1000000000, 1 >>
      /\ (xPassive1[i] = One \/ xPassive2[i] = One) => out.dfdx[i] = << -1000000000, 1 >>

\* C1: after an evaluation that returns 0, every element with the solid flag
\* has dfdx = +1e9, also when it carries the fixed or loaded flag as well,
\* and every element with the fixed or the loaded flag and without the solid
\* flag has dfdx = -1e9, whatever the density and the temperature are.
C1_Sentinels ==
  Evaluated =>
    \A i \in Elems(da_nodes.g) :
      /\ xPassive0[i] = One => out.dfdx[i] = << 1000000000, 1 >>
      /\ (xPassive0[i] = Zero /\ (xPassive1[i] = One \/ xPassive2[i] = One))
           => out.dfdx[i] = << -1000000000, 1 >>

\* The second evaluation of a run has returned, on the graded density; an
\* element that is solid and fixed at once has got +1e9.
C1_Witness ==
  /\ Evaluated
  /\ call.n = 2
  /\ \E i \in Elems(da_nodes.g) :
        /\ xPassive0[i] = One /\ xPassive1[i] = One
        /\ out.dfdx[i] = << 1000000000, 1 >>
  /\ xPhys = Graded(da_nodes.g)

\* The elements whose three passive flags are all 0.
DesignableElems ==
  { i \in Elems(da_nodes.g) :
      xPassive0[i] = Zero /\ xPassive1[i] = Zero /\ xPassive2[i] = Zero }

\* The sum of v over the designable elements.
DesignableSum(v) ==
  SumSeq([k \in 1 .. NumElems(da_nodes.g) |->
            IF (k - 1) \in DesignableElems THEN v[k - 1] ELSE Zero])

\* C2 as stated: with at least one designable element, gx is the sum of
\* xPhys over the designable elements divided by their number, minus
\* volfrac, and dgdx is 1 / (that number) on the designable elements and 0
\* on the others.
C2_VolumeAsStated ==
  (Evaluated /\ DesignableElems # { }) =>
    /\ out.gx = RSub(RDiv(DesignableSum(xPhys), R(Cardinality(DesignableElems), 1)),
                     call.par[1].volfrac)
    /\ \A i \in Elems(da_nodes.g) :
         out.dgdx[i] = IF i \in DesignableElems
                       THEN RDiv(One, R(Cardinality(DesignableElems), 1))
                       ELSE Zero

\* An evaluation on two elements, the first solid and fixed at once and the
\* second free, with density 1: the denominator is 2 - 1 - 1 - 0 = 0, gx is
\* infinite and dgdx is not a number on the first element.
C2_Witness ==
  /\ Evaluated
  /\ NumElems(da_nodes.g) = 2
  /\ xPassive0[0] = One /\ xPassive1[0] = One /\ xPassive2[0] = Zero
  /\ DesignableElems = { 1 }
  /\ xPhys = UniformOne(da_nodes.g)
  /\ out.gx = << 1, 0 >>
  /\ out.dgdx[0] = << 0, 0 >>
  /\ out.dgdx[1] = << 1, 0 >>

\* The four nodes of element i of the structured grid g, counterclockwise
\* from the lower left.
CellNodes(g, i) ==
  << (i % (g[1] - 1)) + (i \div (g[1] - 1)) * g[1],
     (i % (g[1] - 1)) + 1 + (i \div (g[1] - 1)) * g[1],
     (i % (g[1] - 1)) + 1 + ((i \div (g[1] - 1)) + 1) * g[1],
     (i % (g[1] - 1)) + ((i \div (g[1] - 1)) + 1) * g[1] >>

\* The entry (r, c) of the sum over the elements of KE times cond[element],
\* scattered at the element's nodes.
ScatteredEntry(r, c, cond) ==
  SumSeq([k \in 1 .. NumElems(da_nodes.g) |->
     IF \E a, b \in 1 .. 4 : /\ CellNodes(da_nodes.g, k - 1)[a] = r
                             /\ CellNodes(da_nodes.g, k - 1)[b] = c
     THEN RMul(KE[CHOOSE a \in 1 .. 4 : CellNodes(da_nodes.g, k - 1)[a] = r]
                 [CHOOSE b \in 1 .. 4 : CellNodes(da_nodes.g, k - 1)[b] = c],
               cond[k - 1])
     ELSE Zero])

\* Emin + x^penal * (Emax - Emin) for the density K was assembled from.
AssembledConductivity ==
  [i \in Elems(da_nodes.g) |->
     RAdd(call.par[1].Emin,
          RMul(PetscPowScalar(Kx[1][i], call.par[1].penal),
               RSub(call.par[1].Emax, call.par[1].Emin)))]

\* C3: once an assembly has completed, every node d with N[d] = 0 has
\* K[d][d] = 1, K[d][j] = K[j][d] = 0 for j # d and RHS[d] = 0, and for
\* every pair of free nodes the entry of K is the plain sum of the
\* SIMP-scaled element contributions.
C3_DirichletRows ==
  Kx # << >> =>
    /\ \A d \in Nodes(da_nodes.g) :
         N[d] = Zero =>
           /\ K[d][d] = One
           /\ RHS[d] = Zero
           /\ \A j \in Nodes(da_nodes.g) \ { d } : K[d][j] = Zero /\ K[j][d] = Zero
    /\ \A r, c \in Nodes(da_nodes.g) :
         (N[r] = One /\ N[c] = One) =>
           K[r][c] = ScatteredEntry(r, c, AssembledConductivity)

\* An assembly from the graded density has completed on a grid with a
\* Dirichlet node that is coupled to a free node by an element, and with two
\* different free nodes that are coupled in K.
C3_Witness ==
  /\ Kx = << Graded(da_nodes.g) >>
  /\ \E d, f \in Nodes(da_nodes.g) :
        /\ N[d] = Zero /\ N[f] = One
        /\ ScatteredEntry(d, f, AssembledConductivity) # Zero
        /\ K[d][f] = Zero
  /\ \E r, c \in Nodes(da_nodes.g) :
        r # c /\ N[r] = One /\ N[c] = One /\ K[r][c] # Zero

\* The names of the events of a call.
EventNames == { call.events[k][1] : k \in DOMAIN call.events }

\* The events only SetUpSolver produces.
SetUpOnlyEvents ==
  { "SetUpSolver", "KSPCreate", "PCMGSetLevels", "DMCreateInterpolation",
    "PetscPrintf_Linear_solver_settings" }

\* The last call got past the assembly, to the set-up step of SolveState.
ReachedSetUpStep == "VecPointwiseMult_RHS_N" \in EventNames

\* C4: on one instance SetUpSolver runs at most once, namely in the first
\* SolveState call that reaches the set-up step (the call that finds
\* ksp == NULL); every later call only rebinds the operator
\* (KSPSetOperators, KSPSetUp) and creates no KSP, no levels and no
\* interpolation; and once SetUpSolver has run, ksp is not NULL again as
\* long as the destructor has not run.
C4_SetUpOnce ==
  /\ setUpRuns <= 1
  /\ (alive /\ setUpRuns = 1) => ksp.created
  /\ (alive /\ setUpRuns = 0) => ~ksp.created
  /\ (call.op = "SolveState" /\ ReachedSetUpStep) =>
       /\ setUpRuns = 1
       /\ call.setups = (IF call.kspBefore THEN 0 ELSE 1)
       /\ ~call.kspBefore => "SetUpSolver" \in EventNames
       /\ call.kspBefore =>
            /\ EventNames \cap SetUpOnlyEvents = { }
            /\ call.ierr = 0 =>
                 /\ call.rebinds = 1
                 /\ { "KSPSetOperators", "KSPSetUp" } \subseteq EventNames
  /\ (call.op = "SolveState" /\ ~ReachedSetUpStep) =>
       /\ call.setups = 0
       /\ EventNames \cap SetUpOnlyEvents = { }

\* The second SolveState call on an instance has returned 0: it found the
\* multigrid solver of the first call, with its four levels and three
\* interpolations, and rebound the operator.
C4_Witness ==
  /\ call.op = "SolveState" /\ call.ierr = 0 /\ call.kspBefore
  /\ call.rebinds = 1 /\ call.setups = 0
  /\ setUpRuns = 1
  /\ ksp.configured /\ ksp.pc = "mg"
  /\ Len(ksp.levels) = 4 /\ Cardinality(ksp.interp) = 3

\* The positions in the events of the last call of the events named in names.
EventPositions(names) ==
  { k \in DOMAIN call.events : call.events[k][1] \in names }

\* The events that build K: the element contributions and the Dirichlet
\* elimination.
AssemblyEventNames ==
  { "MatZeroEntries", "MatSetValuesLocal", "MatAssemblyEnd", "MatDiagonalScale",
    "MatDiagonalSet", "VecPointwiseMult_RHS_N" }

\* The events that read U or use what was read from it.
SensitivityEventNames == { "DMGlobalToLocal_U", "uKu", "df", "MPI_Allreduce_fx" }

\* u_e' KE u_e of element i for the nodal vector u.
ElementEnergy(u, i) ==
  SumSeq([t \in 1 .. 16 |->
     RMul(RMul(u[CellNodes(da_nodes.g, i)[((t - 1) \div 4) + 1]],
               KE[((t - 1) \div 4) + 1][((t - 1) % 4) + 1]),
          u[CellNodes(da_nodes.g, i)[((t - 1) % 4) + 1]])])

\* The objective of the nodal vector u: the sum over the designable elements
\* of (Emin + xPhys^penal (Emax - Emin)) uKu.
ObjectiveOf(u) ==
  DesignableSum([i \in Elems(da_nodes.g) |->
     RMul(RAdd(call.par[1].Emin,
               RMul(PetscPowScalar(xPhys[i], call.par[1].penal),
                    RSub(call.par[1].Emax, call.par[1].Emin))),
          ElementEnergy(u, i))])

\* C5: in every evaluation all the element contributions and the Dirichlet
\* elimination come before KSPSolve starts, KSPSolve completes before U is
\* read for uKu, the objective and dfdx, the solve runs on the K assembled
\* from the density of this evaluation, and the objective is the one of the
\* vector this evaluation's solve left in U.
C5_Ordering ==
  call.op = "ComputeObjectiveConstraintsSensitivities" =>
    /\ Cardinality(EventPositions({ "KSPSolve_begin" })) <= 1
    /\ Cardinality(EventPositions({ "KSPSolve_end" })) <= 1
    /\ \A s \in EventPositions({ "KSPSolve_begin" }) :
         /\ Cardinality({ k \in EventPositions({ "MatSetValuesLocal" }) : k < s })
              = NumElems(da_nodes.g)
         /\ \E k \in EventPositions({ "MatDiagonalScale" }) : k < s
         /\ \E k \in EventPositions({ "MatDiagonalSet" }) : k < s
         /\ \A k \in EventPositions(AssemblyEventNames) : k < s
         /\ \A e \in EventPositions({ "KSPSolve_end" }) : s < e
    /\ \A e \in EventPositions({ "KSPSolve_end" }) :
         \E s \in EventPositions({ "KSPSolve_begin" }) : s < e
    /\ \A r \in EventPositions(SensitivityEventNames) :
         \E e \in EventPositions({ "KSPSolve_end" }) : e < r
    /\ call.solved # << >> =>
         /\ call.solved[1].Kx = << xPhys >>
         /\ Kx = << xPhys >>
    /\ call.ierr = 0 =>
         /\ EventPositions({ "KSPSolve_end" }) # { }
         /\ EventPositions({ "DMGlobalToLocal_U" }) # { }
         /\ call.solved # << >>
         /\ U = call.solved[1].U
         /\ out.fx = ObjectiveOf(call.solved[1].U)

\* The second evaluation of a run has returned 0 on the graded density: it
\* rebound the operator, its solve left a vector in U other than zero, and
\* the objective read from it is not zero.
C5_Witness ==
  /\ Evaluated
  /\ call.n = 2 /\ call.rebinds = 1
  /\ xPhys = Graded(da_nodes.g)
  /\ Kx = << xPhys >>
  /\ call.solved[1].U = U
  /\ \E n \in Nodes(da_nodes.g) : U[n] # Zero
  /\ EventPositions({ "uKu" }) # { }
  /\ out.fx # Zero
  /\ out.fx = ObjectiveOf(U)

\* The last call was a WriteRestartFiles call that ran to its end and
\* returned 0, on an instance whose solver set-up has run with restart on.
SavedWithRestart ==
  /\ call.op = "WriteRestartFiles" /\ call.ierr = 0
  /\ setUpRuns = 1
  /\ restart = PETSC_TRUE

\* C6: with restart on, the n-th save after the solver set-up writes U to
\* RestartSol00.dat when n is odd and to RestartSol01.dat when n is even, so
\* two consecutive saves write to different files; there are no files but
\* these two, and the other one is left as it was.
C6_Alternation ==
  /\ DOMAIN env.files = { RestartSol00, RestartSol01 }
  /\ SavedWithRestart =>
       /\ ckpt.saves >= 1
       /\ ckpt.target = (IF ckpt.saves % 2 = 1 THEN RestartSol00 ELSE RestartSol01)
       /\ ckpt.saves >= 2 =>
            /\ ckpt.prev \in { RestartSol00, RestartSol01 }
            /\ ckpt.prev # ckpt.target
       /\ env.files[ckpt.target] = VecFile(U)
       /\ ckpt.lastGood = ckpt.target

\* The third save of a run has returned: it wrote RestartSol00.dat, the
\* second one had written RestartSol01.dat, and both files hold a vector.
C6_Witness ==
  /\ SavedWithRestart
  /\ ckpt.saves = 3
  /\ ckpt.target = RestartSol00 /\ ckpt.prev = RestartSol01
  /\ env.files[RestartSol00] = VecFile(U)
  /\ env.files[RestartSol01][1] = "vec"

\* The last call was a WriteRestartFiles call cut in the middle of its write,
\* after some save of this or an earlier run had completed.
InterruptedAfterSave ==
  /\ call.op = "WriteRestartFiles_interrupted"
  /\ ckpt.lastGood # "none"

\* C7: whenever a WriteRestartFiles call is interrupted in the middle of its
\* write, the file of the most recently completed save is not the file
\* being written and still holds a complete vector, also when the program
\* was started again between the saves.
C7_LastGoodIntact ==
  InterruptedAfterSave =>
    /\ ckpt.cut # ckpt.lastGood
    /\ env.files[ckpt.lastGood][1] = "vec"

\* The first run saved once, to RestartSol00.dat, and ended; the second run
\* was interrupted in its first save, which was writing RestartSol00.dat
\* again: the only checkpoint there was is cut, and no file holds a vector.
C7_Witness ==
  /\ InterruptedAfterSave
  /\ ckpt.launches = 2
  /\ setUpRuns = 1
  /\ ckpt.saves = 0
  /\ ckpt.lastGood = RestartSol00 /\ ckpt.cut = RestartSol00
  /\ env.files[RestartSol00] = Corrupt
  /\ env.files[RestartSol01] = NoFile

\* -penal x^(penal-1) (Emax - Emin) uKu of element i for the nodal vector u.
SensitivityOf(u, i) ==
  RMul(RMul(RMul(R(-(call.par[1].penal), 1),
                 PetscPowScalar(xPhys[i], call.par[1].penal - 1)),
            RSub(call.par[1].Emax, call.par[1].Emin)),
       ElementEnergy(u, i))

C9_UniformDensity ==
  Kx = << UniformOne(da_nodes.g) >> =>
    \A r, c \in Nodes(da_nodes.g) :
      (N[r] = One /\ N[c] = One) =>
        K[r][c] = ScatteredEntry(r, c, [i \in Elems(da_nodes.g) |-> call.par[1].Emax])

\* K was assembled from the density 1 with Emin = 1/10 and penal = 3, and
\* two different free nodes are coupled in it.
C9_Witness ==
  /\ Kx = << UniformOne(da_nodes.g) >>
  /\ call.par[1].Emin # Zero /\ call.par[1].penal = 3
  /\ \E r, c \in Nodes(da_nodes.g) :
        /\ r # c /\ N[r] = One /\ N[c] = One
        /\ K[r][c] # Zero
        /\ K[r][c] = ScatteredEntry(r, c, [i \in Elems(da_nodes.g) |-> call.par[1].Emax])

\* The solve of the last call did not converge.
NotConverged == call.reason \in { "KSP_DIVERGED_ITS", "KSP_DIVERGED_DTOL" }

\* The report of the iteration count and the relative residual, made after
\* KSPSolve has returned.
SolveReported ==
  \E k \in EventPositions({ "PetscPrintf_State_solver" }) :
     /\ call.events[k][2] = call.solved[1].niter
     /\ \E e \in EventPositions({ "KSPSolve_end" }) : e < k

\* C10: an evaluation in which no PETSc call fails returns 0 whatever the
\* reason KSPSolve stopped for; every SolveState that returns 0, converged
\* or not, has reported the iteration count and the relative residual; and
\* after a solve that did not converge the objective, the constraint and the
\* sensitivities are computed from the vector the solve left in U.
C10_NonConvergence ==
  call.op = "ComputeObjectiveConstraintsSensitivities" =>
    /\ call.fault = "none" => call.ierr = 0
    /\ call.ierr = 0 =>
         /\ call.solved # << >>
         /\ SolveReported
    /\ (NotConverged /\ call.fault = "none") =>
         /\ call.ierr = 0
         /\ SolveReported
         /\ call.reason = "KSP_DIVERGED_ITS" =>
              /\ call.solved[1].niter = ksp.maxits
              /\ ksp.configured => call.solved[1].niter = maxitsGlobal
         /\ { "MPI_Allreduce_fx", "VecSum_gx", "VecSet_dgdx" } \subseteq EventNames
         /\ U = call.solved[1].U
         /\ out.fx = ObjectiveOf(U)
         /\ \A i \in DesignableElems : out.dfdx[i] = SensitivityOf(U, i)

\* An evaluation whose solve stopped at the iteration limit has returned 0,
\* reported 200 iterations and computed an objective other than zero from
\* the vector left in U.
C10_Witness ==
  /\ Evaluated
  /\ call.reason = "KSP_DIVERGED_ITS"
  /\ ksp.configured
  /\ << "PetscPrintf_State_solver", maxitsGlobal >> \in
       { call.events[k] : k \in DOMAIN call.events }
  /\ "MPI_Allreduce_fx" \in EventNames
  /\ out.fx # Zero
  /\ out.fx = ObjectiveOf(U)

\* The last call ran SetUpSolver into its multigrid branch with a level
\* count below 1.
SetUpWithInvalidLevels ==
  /\ call.setups = 1
  /\ "PetscMalloc" \in EventNames
  /\ nlvls < 1

\* The messages SetUpSolver and SolveState print whatever the level count is.
OrdinaryMessages ==
  { "PetscPrintf_Restarting", "PetscPrintf_NOT_FOUND",
    "PetscPrintf_Linear_solver_settings", "PetscPrintf_State_solver" }

\* The events of the last call that are accesses to entry i of a hierarchy
\* array.
HierarchyAccesses ==
  { call.events[k] : k \in EventPositions({ "daclist", "da_list" }) }

\* C11: a level count below 1 given through -nlvls is reported by a message
\* of its own, after which the hierarchy is built with the default count or
\* the call returns an error, and no entry of daclist or da_list outside
\* 0 .. nlvls-1 is ever accessed.
C11_InvalidLevelCount ==
  /\ \A a \in HierarchyAccesses : 0 <= a[2] /\ a[2] < nlvls
  /\ SetUpWithInvalidLevels =>
       /\ \E k \in DOMAIN call.events :
            /\ call.events[k][1] \notin OrdinaryMessages
            /\ call.events[k][1] \notin { "SIGSEGV", "PetscMalloc" }
            /\ k < CHOOSE j \in EventPositions({ "PetscMalloc" }) : TRUE
            /\ call.events[k][1] \notin AssemblyEventNames
                 \cup { "SetUpSolver", "KSPCreate", "KSPSetOperators" }
       /\ \/ << "PCMGSetLevels", DefaultNlvls >> \in
               { call.events[k] : k \in DOMAIN call.events }
          \/ (call.ierr # 0 /\ alive)

\* An evaluation with -nlvls 0 has returned 0: daclist[0] was stored into an
\* allocation of no entries, PCMGSetLevels was called with 0 levels, no
\* message but the ordinary ones was printed, and the solver counts as
\* configured.
C11_Witness ==
  /\ Evaluated
  /\ env.opts.nlvls = << 0 >> /\ nlvls = 0
  /\ SetUpWithInvalidLevels
  /\ << "PetscMalloc", 0 >> \in { call.events[k] : k \in DOMAIN call.events }
  /\ << "daclist", 0 >> \in HierarchyAccesses
  /\ << "PCMGSetLevels", 0 >> \in { call.events[k] : k \in DOMAIN call.events }
  /\ ksp.configured /\ ksp.levels = << >>
  /\ alive

\* The command line and the files ask for the state vector to be loaded:
\* restart is on, -onlyLoadDesign is not set and the file named by
\* -restartFileVecSol exists.
LoadAskedFor ==
  /\ env.opts.restart # PETSC_FALSE
  /\ ~env.opts.onlyLoadDesign
  /\ env.opts.restartFileVecSol \in DOMAIN env.files
  /\ env.files[env.opts.restartFileVecSol] # << "absent" >>

\* The last call ran SetUpSolver and its solve, if it got that far, left U
\* as the set-up had left it.
SetUpLeftU ==
  /\ call.op = "SolveState" /\ call.setups = 1
  /\ \/ call.solved = << >>
     \/ call.reason = "KSP_DIVERGED_ITS"

\* C12: the call that configures the solver loads U from the checkpoint
\* exactly when restart is on, -onlyLoadDesign is not set and the file of
\* -restartFileVecSol exists; otherwise U stays as the constructor left it,
\* a file looked for and not found is reported, and with no failing PETSc
\* call the configuration runs to its end; no later call loads U.
C12_RestartLoad ==
  /\ (call.op = "SolveState" /\ call.setups = 0) => "VecLoad_U" \notin EventNames
  /\ (call.op = "SolveState" /\ call.setups = 1) =>
       /\ "VecLoad_U" \in EventNames <=> LoadAskedFor
       /\ "PetscPrintf_NOT_FOUND" \in EventNames <=>
            (env.opts.restart # PETSC_FALSE /\ ~env.opts.onlyLoadDesign /\ ~LoadAskedFor)
       /\ call.fault = "none" => (ksp.configured /\ call.ierr = 0)
  /\ (SetUpLeftU /\ ~LoadAskedFor) => U = [n \in Nodes(da_nodes.g) |-> << 0, 1 >>]
  /\ (SetUpLeftU /\ LoadAskedFor
        /\ env.files[env.opts.restartFileVecSol][1] = "vec") =>
       U = env.files[env.opts.restartFileVecSol][2]

\* The second run was started with -restartFileVecSol naming the checkpoint
\* of the first; its first SolveState call configured the solver, loaded the
\* saved vector, which is not zero, and its solve left U at that vector.
C12_Witness ==
  /\ SetUpLeftU
  /\ call.reason = "KSP_DIVERGED_ITS" /\ call.ierr = 0
  /\ ckpt.launches = 2
  /\ LoadAskedFor
  /\ "VecLoad_U" \in EventNames
  /\ env.files[env.opts.restartFileVecSol][1] = "vec"
  /\ U = env.files[env.opts.restartFileVecSol][2]
  /\ \E n \in Nodes(da_nodes.g) : U[n] # << 0, 1 >>
  /\ ksp.configured

\* No element has a passive flag and the density of the last evaluation is
\* volfrac on every element.
UniformAtVolfrac ==
  /\ Evaluated
  /\ DesignableElems = Elems(da_nodes.g)
  /\ \A i \in Elems(da_nodes.g) : xPhys[i] = call.par[1].volfrac

\* C13: when no element has a passive flag and xPhys is volfrac on every
\* element, the evaluation returns gx = 0, and dgdx is 1 / (number of
\* elements) everywhere.
C13_VolumeAtVolfrac ==
  UniformAtVolfrac =>
    /\ out.gx = << 0, 1 >>
    /\ \A i \in Elems(da_nodes.g) : out.dgdx[i] = << 1, NumElems(da_nodes.g) >>

\* An evaluation on two elements without passive flags, with the density
\* 1/4 = volfrac on both, has returned gx = 0.
C13_Witness ==
  /\ UniformAtVolfrac
  /\ NumElems(da_nodes.g) = 2
  /\ call.par[1].volfrac = << 1, 4 >>
  /\ xPhys[0] = << 1, 4 >> /\ xPhys[1] = << 1, 4 >>
  /\ out.gx = << 0, 1 >>
  /\ out.dgdx[1] = << 1, 2 >>

\* The sign of a scalar and of a number a + b*g (g > 0, g*g = 1/3): when a
\* and b differ in sign the larger of 3*a*a and b*b decides.
RSign(x) == Sign(x[1])

GSign(p) ==
  IF p[2] = Zero THEN RSign(p[1])
  ELSE IF p[1] = Zero \/ RSign(p[1]) = RSign(p[2]) THEN RSign(p[2])
  ELSE IF RLess(RMul(p[2], p[2]), RMul(R(3, 1), RMul(p[1], p[1]))) THEN RSign(p[1])
  ELSE RSign(p[2])

GFinite(p) == IsFinite(p[1]) /\ IsFinite(p[2])

\* The Jacobian determinants at the Gauss points of the element handed to
\* the kernel.
QuadDeterminants(X, Y, redInt) ==
  { Inverse2M(Jacobian(DifferentiatedShapeFunctions_2D(
                 GaussPoints(redInt)[ii], GaussPoints(redInt)[jj]), X, Y)).detJ :
      ii \in 1 .. (2 - redInt), jj \in 1 .. (2 - redInt) }

HexDeterminants(X, Y, Z, redInt) ==
  { Inverse3M(Jacobian3(DifferentiatedShapeFunctions(
                 GaussPoints(redInt)[ii], GaussPoints(redInt)[jj],
                 GaussPoints(redInt)[kk]), X, Y, Z)).detJ :
      ii \in 1 .. (2 - redInt), jj \in 1 .. (2 - redInt), kk \in 1 .. (2 - redInt) }

KernelDeterminants ==
  IF kernel.fn = "Quad4Isoparametric"
  THEN QuadDeterminants(Coords(kernel.args[1]), Coords(kernel.args[2]), kernel.args[3])
  ELSE HexDeterminants(Coords(kernel.args[1]), Coords(kernel.args[2]),
                       Coords(kernel.args[3]), kernel.args[4])

\* A conductivity matrix was computed for an element whose Jacobian
\* determinant is positive at every Gauss point.
ElementMatrixComputed ==
  /\ kernel.fn \in { "Quad4Isoparametric", "Hex8Isoparametric" }
  /\ kernel.result # << >>

NonDegenerate == \A d \in KernelDeterminants : GSign(d) = 1

ElementNodes == IF kernel.fn = "Quad4Isoparametric" THEN 4 ELSE 8

\* Nodal vectors: every vector over {-1, 0, 1} for four nodes; every vector
\* over {-1, 1} and over {0, 1} for eight.
NodalVectors(n) ==
  IF n = 4 THEN [1 .. 4 -> { -1, 0, 1 }]
  ELSE [1 .. 8 -> { -1, 1 }] \cup [1 .. 8 -> { 0, 1 }]

\* The first t terms v[i] * ke[i][j] * v[j] of v^T ke v, row by row.
\* The part of v^T ke v that row i of ke contributes, columns 1 .. t.
RECURSIVE RowForm(_, _, _, _)
RowForm(ke, v, i, t) ==
  IF t = 0 THEN GConst(Zero)
  ELSE GAdd(RowForm(ke, v, i, t - 1),
            GMul(GConst(R(v[i] * v[t], 1)), ke[i][t]))

\* v^T ke v over the rows 1 .. t of the n x n matrix ke.
RECURSIVE QuadraticForm(_, _, _, _)
QuadraticForm(ke, v, n, t) ==
  IF t = 0 THEN GConst(Zero)
  ELSE GAdd(QuadraticForm(ke, v, n, t - 1), RowForm(ke, v, t, n))

EnergyOf(v) == QuadraticForm(kernel.result[1], v, ElementNodes, ElementNodes)

\* C14: for an element with a positive Jacobian determinant at every Gauss
\* point, with full and with reduced integration, the matrix ke computed
\* by Quad4Isoparametric and by Hex8Isoparametric is symmetric and
\* v^T ke v >= 0 for every nodal vector v.
C14_SymmetricPSD ==
  (ElementMatrixComputed /\ NonDegenerate) =>
     /\ \A i \in 1 .. ElementNodes, j \in 1 .. ElementNodes :
           /\ GFinite(kernel.result[1][i][j])
           /\ kernel.result[1][i][j] = kernel.result[1][j][i]
     /\ \A v \in NodalVectors(ElementNodes) : GSign(EnergyOf(v)) >= 0

\* A trapezium integrated with four Gauss points: its matrix has a
\* positive energy for one nodal vector and none for the constant one.
C14_Witness ==
  /\ ElementMatrixComputed
  /\ NonDegenerate
  /\ kernel.fn = "Quad4Isoparametric"
  /\ kernel.args[1] = << 0, 2, 1, 0 >>
  /\ kernel.args[3] = 0
  /\ \E v \in NodalVectors(4) : GSign(EnergyOf(v)) = 1
  /\ GSign(EnergyOf(<< 1, 1, 1, 1 >>)) = 0

\* The matrix handed to Inverse2M or Inverse3M, its size, and what the call
\* returned.
InverseComputed ==
  /\ kernel.fn \in { "Inverse2M", "Inverse3M" }
  /\ kernel.result # << >>

MatrixSize == IF kernel.fn = "Inverse2M" THEN 2 ELSE 3

MatrixArg == ScalarRows(kernel.args[1])

\* det(J) by the rule of Sarrus.
Sarrus(J) ==
  GSub(GAdd(GAdd(GMul(GMul(J[1][1], J[2][2]), J[3][3]),
                 GMul(GMul(J[1][2], J[2][3]), J[3][1])),
            GMul(GMul(J[1][3], J[2][1]), J[3][2])),
       GAdd(GAdd(GMul(GMul(J[1][3], J[2][2]), J[3][1]),
                 GMul(GMul(J[1][2], J[2][1]), J[3][3])),
            GMul(GMul(J[1][1], J[2][3]), J[3][2])))

DeterminantOf(J, n) ==
  IF n = 2 THEN GSub(GMul(J[1][1], J[2][2]), GMul(J[1][2], J[2][1])) ELSE Sarrus(J)

\* The entry (i, j) of the product A * B of two n-by-n matrices.
RECURSIVE ProductEntry(_, _, _, _, _)
ProductEntry(A, B, i, j, k) ==
  IF k = 0 THEN GConst(Zero)
  ELSE GAdd(ProductEntry(A, B, i, j, k - 1), GMul(A[i][k], B[k][j]))

\* The indices of 1 .. 3 other than k, in order.
Others(k) == IF k = 1 THEN << 2, 3 >> ELSE IF k = 2 THEN << 1, 3 >> ELSE << 1, 2 >>

\* The cofactor of the entry (r, c) of a 3x3 matrix.
Cofactor3(J, r, c) ==
  GMul(GConst(R(IF (r + c) % 2 = 0 THEN 1 ELSE -1, 1)),
       GSub(GMul(J[Others(r)[1]][Others(c)[1]], J[Others(r)[2]][Others(c)[2]]),
            GMul(J[Others(r)[1]][Others(c)[2]], J[Others(r)[2]][Others(c)[1]])))

\* The entry (i, j) of the adjugate: the cofactor of the entry (j, i).
AdjugateEntry(J, n, i, j) ==
  IF n = 3 THEN Cofactor3(J, j, i)
  ELSE IF i = j THEN J[3 - i][3 - i] ELSE GNeg(J[i][j])

\* C15: for a 2x2 (3x3) matrix J with a nonzero determinant, Inverse2M
\* (Inverse3M) returns det(J) and an invJ with J * invJ = Identity and
\* detJ * invJ equal to the adjugate of J entry by entry.
C15_InverseRoundTrip ==
  (InverseComputed /\ DeterminantOf(MatrixArg, MatrixSize) # GConst(Zero)) =>
     /\ kernel.result[1].detJ = DeterminantOf(MatrixArg, MatrixSize)
     /\ \A i \in 1 .. MatrixSize, j \in 1 .. MatrixSize :
           /\ ProductEntry(MatrixArg, kernel.result[1].invJ, i, j, MatrixSize)
                = GConst(IF i = j THEN One ELSE Zero)
           /\ GMul(kernel.result[1].detJ, kernel.result[1].invJ[i][j])
                = AdjugateEntry(MatrixArg, MatrixSize, i, j)

\* A 3x3 matrix with determinant other than 0 and 1 whose inverse has no
\* zero in its first row has been inverted.
C15_Witness ==
  /\ InverseComputed
  /\ kernel.fn = "Inverse3M"
  /\ DeterminantOf(MatrixArg, 3) \notin { GConst(Zero), GConst(One) }
  /\ \A j \in 1 .. 3 : kernel.result[1].invJ[1][j] # GConst(Zero)

\* C16: a call changes no value of the density field it is handed and no
\* value of the three passive masks: after every call the masks are what
\* they were before it and xPhys is the field that was handed in.
C16_DensityAndMasksReadOnly ==
  [][/\ xPassive0' = xPassive0
     /\ xPassive1' = xPassive1
     /\ xPassive2' = xPassive2
     /\ call'.n # call.n => xPhys' = call'.xp[1]]_vars

\* A second evaluation has returned on an imported geometry with a solid
\* and a fixed element, for a graded density field.
C16_Witness ==
  /\ Evaluated
  /\ call.n = 2
  /\ IMPORT_GEO = 1
  /\ \E i \in Elems(da_nodes.g) : xPassive0[i] = One
  /\ \E i \in Elems(da_nodes.g) : xPassive1[i] = One
  /\ \E i \in Elems(da_nodes.g), j \in Elems(da_nodes.g) : xPhys[i] # xPhys[j]

\* The call of this step ran AssembleConductivityMatrix to its end.
AssemblyCompleted ==
  /\ call'.n # call.n
  /\ \E k \in DOMAIN call'.events : call'.events[k][1] = "VecPointwiseMult_RHS_N"

\* An earlier call ran the assembly to its end: SolveState enters
\* SetUpSolver when, and only when, its assembly has returned without error
\* while no solver exists.
AssembledBefore == setUpRuns > 0

\* C17: N holds only 0 and 1 and no call changes it; a call changes RHS only
\* by the masking RHS := RHS * N of a completed assembly, and an assembly
\* after the first leaves RHS as the first left it.
C17_MaskAndLoadFixed ==
  /\ [](\A n \in Nodes(da_nodes.g) : N[n] \in { Zero, One })
  /\ [][/\ N' = N
        /\ AssemblyCompleted => RHS' = [n \in Nodes(da_nodes.g) |-> RMul(RHS[n], N[n])]
        /\ ~AssemblyCompleted => RHS' = RHS
        /\ AssembledBefore => RHS' = RHS]_vars

\* A second assembly has run on a mesh with a Dirichlet node and a loaded
\* free node.
C17_Witness ==
  /\ call.n = 2
  /\ setUpRuns > 0
  /\ "VecPointwiseMult_RHS_N" \in EventNames
  /\ \E n \in Nodes(da_nodes.g) : N[n] = Zero
  /\ \E n \in Nodes(da_nodes.g) : RHS[n] # Zero

\* The members of a new instance built from the same arguments and options.
FreshMembers ==
  Constructor(da_nodes.g, da_nodes.sz, IMPORT_GEO, xPassive0, xPassive1,
              xPassive2, env.opts)

\* The first assembly of a new instance with the arguments of the last call.
FreshAssembly ==
  AssembleConductivityMatrix(FreshMembers, call.xp[1], call.par[1].Emin,
                             call.par[1].Emax, call.par[1].penal, "none")

\* C18: K after a completed assembly is the K a new instance assembles from
\* the same density field and parameters, whatever was assembled before.
C18_AssemblyHistoryFree ==
  "VecPointwiseMult_RHS_N" \in EventNames => K = FreshAssembly.m.K

\* An assembly has completed for a density field other than the one of the
\* assembly before it, on a mesh with a Dirichlet node.
C18_Witness ==
  /\ "VecPointwiseMult_RHS_N" \in EventNames
  /\ call.redesign
  /\ \E d \in Nodes(da_nodes.g) : N[d] = Zero /\ K[d][d] = One
  /\ \E r, c \in Nodes(da_nodes.g) : r # c /\ K[r][c] # Zero

\* The elements that have node n as a corner.
AdjacentElems(n) ==
  { i \in Elems(da_nodes.g) :
      \E j \in 1 .. 4 : CellNodes(da_nodes.g, i)[j] = n }

Occurrences(name, arg) ==
  { p \in DOMAIN call.events :
      call.events[p][1] = name /\ call.events[p][2] = arg }

CountOf(name) ==
  Cardinality({ p \in DOMAIN call.events : call.events[p][1] = name })

\* The last call ran SetUpSolver to its end with the multigrid
\* preconditioner and at least one level.
HierarchyBuilt ==
  /\ call.setups = 1
  /\ ksp.configured
  /\ ksp.pc = "mg"
  /\ nlvls >= 1

\* C20: level k of the preconditioner is daclist[nlvls-1-k], so level
\* nlvls-1 is daclist[0] = da_nodal and level 0 the coarsest grid; one
\* interpolation is created for each pair of levels (k-1, k), k = 1 ..
\* nlvls-1, and no other; the clean-up destroys daclist[1 .. nlvls-1], each
\* once, and not daclist[0].
C20_HierarchyLevels ==
  HierarchyBuilt =>
    /\ Len(ksp.levels) = nlvls
    /\ \A k \in 0 .. (nlvls - 1) :
          /\ ksp.levels[k + 1] = nlvls - 1 - k
          /\ \E p \in Occurrences("daclist", nlvls - 1 - k) :
                (p + 1) \in Occurrences("da_list", k)
    /\ Occurrences("PCMGSetLevels", nlvls) # { }
    /\ \A k \in 1 .. (nlvls - 1) :
          /\ Cardinality(Occurrences("DMCreateInterpolation", k)) = 1
          /\ \A p \in Occurrences("DMCreateInterpolation", k) :
                /\ (p - 2) \in Occurrences("da_list", k - 1)
                /\ (p - 1) \in Occurrences("da_list", k)
          /\ << ksp.levels[k], ksp.levels[k + 1] >> \in ksp.interp
          /\ Cardinality(Occurrences("DMDestroy", k)) = 1
    /\ CountOf("DMCreateInterpolation") = nlvls - 1
    /\ Cardinality(ksp.interp) = nlvls - 1
    /\ CountOf("DMDestroy") = nlvls - 1
    /\ Occurrences("DMDestroy", 0) = { }

\* SetUpSolver has built the default hierarchy of four levels.
C20_Witness ==
  /\ HierarchyBuilt
  /\ nlvls = DefaultNlvls
  /\ CountOf("DMDestroy") = DefaultNlvls - 1
  /\ ksp.levels[DefaultNlvls] = 0

\* ---------------------------------------------------------------------
\* C21  Element lists of a distributed grid
\* ---------------------------------------------------------------------

\* The grid node behind local node index l of a process's ghosted range.
GlobalNode(dm, l) == << dm.Xs + (l % dm.Xm), dm.Ys + (l \div dm.Xm) >>

\* The entries (process, position) of the lists whose first node is grid
\* node (i, j).
ListingsOf(procs, i, j) ==
  { pc \in UNION { { pq } \X (DOMAIN procs[pq].e[1]) : pq \in DOMAIN procs } :
      GlobalNode(procs[pc[1]], procs[pc[1]].e[1][pc[2]][1]) = << i, j >> }

\* cell holds 4 distinct indices of the ghosted range of dm, counterclockwise
\* from the lower-left node.
CounterClockwiseCell(dm, cell) ==
  /\ Cardinality({ cell[k] : k \in 1 .. 4 }) = 4
  /\ \A k \in 1 .. 4 : cell[k] \in 0 .. (dm.Xm * dm.Ym - 1)
  /\ GlobalNode(dm, cell[2]) = << GlobalNode(dm, cell[1])[1] + 1, GlobalNode(dm, cell[1])[2] >>
  /\ GlobalNode(dm, cell[3]) = << GlobalNode(dm, cell[1])[1] + 1, GlobalNode(dm, cell[1])[2] + 1 >>
  /\ GlobalNode(dm, cell[4]) = << GlobalNode(dm, cell[1])[1], GlobalNode(dm, cell[1])[2] + 1 >>

ListsPartitionGrid(procs, nx, ny) ==
  /\ \A pq \in DOMAIN procs :
       /\ procs[pq].e # << >>
       /\ DOMAIN procs[pq].e[1] = 0 .. (procs[pq].ne - 1)
       /\ \A c \in DOMAIN procs[pq].e[1] :
            /\ CounterClockwiseCell(procs[pq], procs[pq].e[1][c])
            /\ GlobalNode(procs[pq], procs[pq].e[1][c][1]) \in (0 .. (nx - 2)) \X (0 .. (ny - 2))
  /\ \A i \in 0 .. (nx - 2), j \in 0 .. (ny - 2) :
       Cardinality(ListingsOf(procs, i, j)) = 1

\* C21: whatever the ownership of the nodes of an M x N grid along x and y
\* (ghost width 1), the lists DMDAGetElements_2D builds on the processes hold
\* each of the (M-1)*(N-1) elements exactly once, every listed element has 4
\* distinct local node indices of the process's ghosted range in the order
\* (i,j), (i+1,j), (i+1,j+1), (i,j+1), and a later call returns the list the
\* first call built.
C21_ElementListsPartitionGrid ==
  (kernel.fn = "DMDAGetElements_2D" /\ kernel.result # << >>) =>
    /\ ListsPartitionGrid(kernel.result[1], NodeCount(kernel.args[1]),
                          NodeCount(kernel.args[2]))
    /\ Len(kernel.result) = 2 => kernel.result[2] = kernel.result[1]

\* Both calls made on a grid split along both axes, with a process that lists
\* an element reaching into its ghost nodes on both axes.
C21_Witness ==
  /\ kernel.fn = "DMDAGetElements_2D"
  /\ Len(kernel.result) = 2
  /\ Len(kernel.args[1]) >= 2
  /\ Len(kernel.args[2]) >= 2
  /\ \E pq \in DOMAIN kernel.result[2] :
       /\ kernel.result[2][pq].xs # kernel.result[2][pq].Xs
       /\ kernel.result[2][pq].ys # kernel.result[2][pq].Ys
       /\ kernel.result[2][pq].ne >= 2

\* ---------------------------------------------------------------------
\* C22  A fixed node in the default scenario
\* ---------------------------------------------------------------------

\* The nodes SetUpLoadAndBC has fixed.
FixedNodes == { n \in Nodes(da_nodes.g) : N[n] = Zero }

\* C22: in the default scenario SetUpLoadAndBC fixes at least one node,
\* whatever the number of elements along x.
C22_DefaultScenarioFixesANode ==
  IMPORT_GEO = 0 => FixedNodes # { }

\* The default scenario on the mesh with one element along x, after a call
\* of the evaluator that assembled and solved: the nodes of the face
\* y = ymin are at x = 0 and x = xmax, none of them in the clamped window,
\* and N is 1 at every node.
C22_Witness ==
  /\ IMPORT_GEO = 0
  /\ da_nodes.g = << 2, 2 >>
  /\ call.op = "ComputeObjectiveConstraintsSensitivities"
  /\ call.ierr = 0
  /\ \A n \in Nodes(da_nodes.g) : N[n] = One

\* ---------------------------------------------------------------------
\* C23  The rebind path and a set-up that failed
\* ---------------------------------------------------------------------

\* C23: a call that takes the rebind path (ksp != NULL) finds a solver that
\* a SetUpSolver call has configured to its end; after a SetUpSolver call
\* that failed past KSPCreate, the next call runs SetUpSolver again.
C23_RebindOnlyWhenConfigured ==
  call.rebinds = 1 => ksp.configured

\* The first call's SetUpSolver returned an error after KSPCreate; the
\* second call found ksp != NULL, rebound the operators, solved and returned
\* 0 with a solver that was never configured to the end.
C23_Witness ==
  /\ call.n = 2
  /\ call.kspBefore
  /\ call.setups = 0
  /\ call.rebinds = 1
  /\ call.ierr = 0
  /\ call.solved # << >>
  /\ ksp.created
  /\ ~ksp.configured

\* ---------------------------------------------------------------------
\* C24  Array views of the evaluator
\* ---------------------------------------------------------------------

\* The vectors ComputeObjectiveConstraintsSensitivities takes array views of.
ViewedVectors == { "xPhys", "xPassive0", "xPassive1", "xPassive2", "Uloc", "dfdx" }

\* The views of v the last call acquired and did not release.
Outstanding(v) ==
  Cardinality(Occurrences("VecGetArray", v))
    - Cardinality(Occurrences("VecRestoreArray", v))

\* C24: an evaluation that returns 0 has released every array view it
\* acquired: for each vector as many VecRestoreArray as VecGetArray calls.
C24_ViewsReleased ==
  Evaluated => \A v \in ViewedVectors : Outstanding(v) = 0

\* The second evaluation has returned 0: the views of xPhys, Uloc and dfdx
\* are released, and each passive-flag vector was acquired twice and
\* released never, as in the evaluation before it.
C24_Witness ==
  /\ Evaluated
  /\ call.n = 2
  /\ \A v \in { "xPhys", "Uloc", "dfdx" } :
       Cardinality(Occurrences("VecGetArray", v)) = 1 /\ Outstanding(v) = 0
  /\ \A v \in { "xPassive0", "xPassive1", "xPassive2" } :
       /\ Cardinality(Occurrences("VecGetArray", v)) = 2
       /\ Occurrences("VecRestoreArray", v) = { }

====
